---- MODULE Spec2Model ----
(***************************************************************************)
(* Model of pr-skills-extractor: the skill-name normaliser, the keyword    *)
(* similarity matcher, the merge of two skills, the document builder, the  *)
(* validator and SkillGenerator.generateSkill over a file tree.            *)
(*                                                                         *)
(* A JavaScript string is modelled as a sequence of one-character strings, *)
(* so that every regular expression of the source is modelled by what it   *)
(* does to the characters.                                                 *)
(***************************************************************************)
EXTENDS Integers, Sequences, FiniteSets, TLC

VARIABLES
  step,         \* how many of the specification's operations have been applied
  rawName,      \* SpecNormalize: the string handed to normalizeSkillName
  normalized,   \* SpecNormalize: normalizeSkillName(rawName), once computed
  renormalized, \* SpecNormalize: normalizeSkillName(normalized), once computed
  skillA,       \* SpecScore: first argument of calculateSimilarity
  skillB,       \* SpecScore: second argument of calculateSimilarity
  scores,       \* SpecScore: <<calculateSimilarity(A, B), calculateSimilarity(B, A)>>, once computed
  candidate,    \* SpecFind: the argument of findSimilarSkills
  corpus,       \* SpecFind: what getAllSkills returns, in its order
  similar,      \* SpecFind: the result of findSimilarSkills, once computed
  existingSkill, \* SpecMerge: first argument of mergeSkills
  newSkill,     \* SpecMerge: second argument of mergeSkills
  merged,       \* SpecMerge: the result of mergeSkills, once computed
  files,        \* Spec: the files below skillsDir, path |-> content
  dirs,         \* Spec: the directories below skillsDir
  last,         \* Spec: what the last generateSkill call returned, with its arguments
  contributed,  \* Spec: path of a SKILL.md |-> the sources of the calls that made it
  skillInput,   \* SpecParse: the classification and source handed to buildSkillContent
  document,     \* SpecParse: the content buildSkillContent returned, once computed
  parsedFile,   \* SpecParse: SkillManager.parseSkillFile(document), once computed
  parsedContent, \* SpecParse: SkillValidator.parseSkillContent(document), once computed
  validation,   \* SpecValidate: what validateSkill resolved to, with its argument
  pc,           \* SpecMain: where main of process-comment.js stands
  env,          \* SpecMain: which environment variables are set
  eventData,    \* SpecMain: what the file at GITHUB_EVENT_PATH holds
  commentData,  \* SpecMain: the comment data handed to processComment, once prepared
  requests,     \* SpecMain: the HTTP requests made so far, each with its outcome
  response,     \* SpecMain: the content the AI call resolved with, once it has
  aiResult,     \* SpecMain: what processComment resolved to, once it has
  exitStatus,   \* SpecMain: <<>> while main runs, then <<status>> of the process
  instances     \* SpecConcurrent: instance |-> its generateSkill call: where it stands, its
                \* arguments, and what it read of the skills directory

normalizeVars == <<rawName, normalized, renormalized>>

scoreVars == <<skillA, skillB, scores>>

findVars == <<candidate, corpus, similar>>

mergeVars == <<existingSkill, newSkill, merged>>

generateVars == <<files, dirs, last, contributed>>

parseVars == <<skillInput, document, parsedFile, parsedContent, validation>>

mainVars == <<pc, env, eventData, commentData, requests, response, aiResult, exitStatus>>

\* the variables of the specifications that follow Spec
concurrentVars == <<instances>>

otherVars == <<parseVars, mainVars, concurrentVars>>

vars == <<step, normalizeVars, scoreVars, findVars, mergeVars, generateVars, otherVars>>

\* the value of a variable that the specification at hand does not use
Unused == <<>>

ParseIdle ==
  /\ skillInput = Unused /\ document = Unused /\ parsedFile = Unused
  /\ parsedContent = Unused /\ validation = Unused

MainIdle ==
  /\ pc = Unused /\ env = Unused /\ eventData = Unused /\ commentData = Unused
  /\ requests = Unused /\ response = Unused /\ aiResult = Unused /\ exitStatus = Unused

ConcurrentIdle == instances = Unused

OthersIdle == ParseIdle /\ MainIdle /\ ConcurrentIdle

(***************************************************************************)
(* Characters and strings                                                  *)
(***************************************************************************)

UpperChars == <<"A","B","C","D","E","F","G","H","I","J","K","L","M","N","O","P","Q","R","S","T","U","V","W","X","Y","Z">>

LowerChars == <<"a","b","c","d","e","f","g","h","i","j","k","l","m","n","o","p","q","r","s","t","u","v","w","x","y","z">>

DigitChars == <<"0","1","2","3","4","5","6","7","8","9">>

Range(f) == {f[i] : i \in DOMAIN f}

UpperSet == Range(UpperChars)

LowerSet == Range(LowerChars)

DigitSet == Range(DigitChars)

\* String.prototype.toLowerCase on one character of the alphabet in use
LowerOf == [c \in UpperSet |-> LowerChars[CHOOSE i \in 1..26 : UpperChars[i] = c]]

toLowerChar(c) == IF c \in UpperSet THEN LowerOf[c] ELSE c

toLowerCase(s) == [i \in 1..Len(s) |-> toLowerChar(s[i])]

\* the regular-expression class \w: [A-Za-z0-9_]
IsWordChar(c) == c \in UpperSet \/ c \in LowerSet \/ c \in DigitSet \/ c = "_"

\* the regular-expression class \s, on the characters in use
IsSpace(c) == c \in {" ", "\n", "\t"}

\* the marker of a character that a replacement deletes
Dropped == ""

Kept(s) == SelectSeq(s, LAMBDA c : c # Dropped)

\* s.replace(/[^\w\s-]/g, '')
StripNonWord(s) == SelectSeq(s, LAMBDA c : IsWordChar(c) \/ IsSpace(c) \/ c = "-")

\* s.replace(/\s+/g, r) for a one-character r: each maximal run of whitespace becomes r
ReplaceSpaceRuns(s, r) ==
  Kept([i \in 1..Len(s) |->
          IF IsSpace(s[i])
          THEN (IF i > 1 /\ IsSpace(s[i-1]) THEN Dropped ELSE r)
          ELSE s[i]])

\* s.replace(/-+/g, '-')
CollapseHyphens(s) ==
  Kept([i \in 1..Len(s) |->
          IF s[i] = "-" /\ i > 1 /\ s[i-1] = "-" THEN Dropped ELSE s[i]])

\* s.replace(/-$/, '')
DropTrailingHyphen(s) ==
  IF Len(s) > 0 /\ s[Len(s)] = "-" THEN SubSeq(s, 1, Len(s) - 1) ELSE s

\* s.replace(/^-|-$/g, '')
TrimHyphens(s) ==
  DropTrailingHyphen(IF Len(s) > 0 /\ s[1] = "-" THEN SubSeq(s, 2, Len(s)) ELSE s)

\* s.startsWith(p)
StartsWith(s, p) == Len(p) <= Len(s) /\ SubSeq(s, 1, Len(p)) = p

(***************************************************************************)
(* SkillManager.normalizeSkillName and convertToGerundForm                 *)
(***************************************************************************)

maxNameLength == 64

verbMappings ==
  << <<<<"a","v","o","i","d">>, <<"a","v","o","i","d","i","n","g">>>>,
     <<<<"p","r","e","f","e","r">>, <<"p","r","e","f","e","r","r","i","n","g">>>>,
     <<<<"u","s","e">>, <<"u","s","i","n","g">>>>,
     <<<<"i","m","p","l","e","m","e","n","t">>, <<"i","m","p","l","e","m","e","n","t","i","n","g">>>>,
     <<<<"h","a","n","d","l","e">>, <<"h","a","n","d","l","i","n","g">>>>,
     <<<<"m","a","n","a","g","e">>, <<"m","a","n","a","g","i","n","g">>>>,
     <<<<"p","r","o","c","e","s","s">>, <<"p","r","o","c","e","s","s","i","n","g">>>>,
     <<<<"v","a","l","i","d","a","t","e">>, <<"v","a","l","i","d","a","t","i","n","g">>>>,
     <<<<"c","h","e","c","k">>, <<"c","h","e","c","k","i","n","g">>>>,
     <<<<"t","e","s","t">>, <<"t","e","s","t","i","n","g">>>>,
     <<<<"c","r","e","a","t","e">>, <<"c","r","e","a","t","i","n","g">>>>,
     <<<<"u","p","d","a","t","e">>, <<"u","p","d","a","t","i","n","g">>>>,
     <<<<"d","e","l","e","t","e">>, <<"d","e","l","e","t","i","n","g">>>>,
     <<<<"r","e","m","o","v","e">>, <<"r","e","m","o","v","i","n","g">>>>,
     <<<<"a","d","d">>, <<"a","d","d","i","n","g">>>>,
     <<<<"f","i","x">>, <<"f","i","x","i","n","g">>>>,
     <<<<"o","p","t","i","m","i","z","e">>, <<"o","p","t","i","m","i","z","i","n","g">>>>,
     <<<<"r","e","f","a","c","t","o","r">>, <<"r","e","f","a","c","t","o","r","i","n","g">>>>,
     <<<<"e","x","t","r","a","c","t">>, <<"e","x","t","r","a","c","t","i","n","g">>>>,
     <<<<"c","o","n","f","i","g","u","r","e">>, <<"c","o","n","f","i","g","u","r","i","n","g">>>>,
     <<<<"s","e","t","u","p">>, <<"s","e","t","t","i","n","g","-","u","p">>>>,
     <<<<"i","n","i","t","i","a","l","i","z","e">>, <<"i","n","i","t","i","a","l","i","z","i","n","g">>>> >>

\* a convertToGerundForm that tests name.startsWith(verb), without the hyphen
convertToGerundForm_VerbPrefix(name) ==
  LET hits == {k \in DOMAIN verbMappings : StartsWith(name, verbMappings[k][1])}
  IN IF hits = {} THEN name
     ELSE LET k == CHOOSE h \in hits : \A g \in hits : h <= g
          IN verbMappings[k][2] \o SubSeq(name, Len(verbMappings[k][1]) + 1, Len(name))

\* the first table entry whose `${verb}-` the name starts with decides; the
\* replaced occurrence of `${verb}-` is the leading one
convertToGerundForm(name) ==
  LET hits == {k \in DOMAIN verbMappings : StartsWith(name, Append(verbMappings[k][1], "-"))}
  IN IF hits = {} THEN name
     ELSE LET k == CHOOSE h \in hits : \A g \in hits : h <= g
          IN (verbMappings[k][2] \o <<"-">>)
               \o SubSeq(name, Len(verbMappings[k][1]) + 2, Len(name))

\* the chain of replacements that opens normalizeSkillName
KebabCase(name) ==
  TrimHyphens(CollapseHyphens(ReplaceSpaceRuns(StripNonWord(toLowerCase(name)), "-")))

\* a cut at 64 characters that leaves the hyphen the cut may end on
TruncateName_KeepsHyphen(s) ==
  IF Len(s) > maxNameLength THEN SubSeq(s, 1, maxNameLength) ELSE s

\* "Enforce max 64 characters"
TruncateName(s) ==
  IF Len(s) > maxNameLength THEN DropTrailingHyphen(SubSeq(s, 1, maxNameLength)) ELSE s

normalizeSkillName(name) == TruncateName(convertToGerundForm(KebabCase(name)))

(***************************************************************************)
(* SpecNormalize: normalizeSkillName applied to a drawn name, then to its  *)
(* own result                                                              *)
(***************************************************************************)

MaxShortLen == 3

MaxTailLen == 2

FillSlack == 12

NameAlphabet == {"a", "B", "7", "_", "-", " ", "!", "."}

TailAlphabet == {"x", "-", " ", "_"}

RECURSIVE SeqsUpTo(_, _)
SeqsUpTo(S, n) ==
  IF n = 0 THEN {<<>>}
  ELSE LET shorter == SeqsUpTo(S, n - 1)
       IN shorter \cup {Append(s, c) : s \in shorter, c \in S}

Fill(n) == [i \in 1..n |-> "x"]

NameHeads ==
  { <<>>,
    <<"a","v","o","i","d","-">>,
    <<"A","v","o","i","d"," ">>,
    <<"u","s","e","-">>,
    <<"s","e","t","u","p","-">>,
    <<"f","i","x","_">>,
    <<"a","v","o","i","d","a","n","c","e","-">>,
    <<"u","s","i","n","g","-">> }

FillLens == {0, 1} \cup ((maxNameLength - FillSlack)..maxNameLength)

\* names with a verb of the table at the start and further on
VerbNames ==
  { <<"A","v","o","i","d"," ","D","i","r","e","c","t"," ","S","t","a","t","e">>, <<"a","v","o","i","d","-","u","s","e","-","a","v","o","i","d","-","x">>, <<"m","y","-","a","v","o","i","d","-","x">>,
    <<"p","r","e","f","e","r","-","f","i","x","-","i","t">>, <<"t","e","s","t","s","-","a","d","d","-","x">> }

NameInputs ==
  SeqsUpTo(NameAlphabet, MaxShortLen)
    \cup VerbNames
    \cup {h \o Fill(n) \o t : h \in NameHeads, n \in FillLens, t \in SeqsUpTo(TailAlphabet, MaxTailLen)}

InitNormalize ==
  /\ rawName \in NameInputs
  /\ normalized = <<>>
  /\ renormalized = <<>>
  /\ step = 0
  /\ skillA = Unused /\ skillB = Unused /\ scores = Unused
  /\ candidate = Unused /\ corpus = Unused /\ similar = Unused
  /\ existingSkill = Unused /\ newSkill = Unused /\ merged = Unused
  /\ files = Unused /\ dirs = Unused /\ last = Unused /\ contributed = Unused
  /\ OthersIdle

Normalize ==
  /\ step = 0
  /\ normalized' = normalizeSkillName(rawName)
  /\ step' = 1
  /\ UNCHANGED <<rawName, renormalized, scoreVars, findVars, mergeVars, generateVars, otherVars>>

Renormalize ==
  /\ step = 1
  /\ renormalized' = normalizeSkillName(normalized)
  /\ step' = 2
  /\ UNCHANGED <<rawName, normalized, scoreVars, findVars, mergeVars, generateVars, otherVars>>

NextNormalize == Normalize \/ Renormalize

SpecNormalize == InitNormalize /\ [][NextNormalize]_vars

\* C1: normalizeSkillName is idempotent: normalising a normalised name gives it back,
\* also when the gerund substitution pushed the length past 64 and the name was cut
C1_Idempotent == step = 2 => renormalized = normalized

C1_Witness ==
  /\ step = 2
  /\ Len(convertToGerundForm(KebabCase(rawName))) > maxNameLength
  /\ Len(KebabCase(rawName)) <= maxNameLength
  /\ renormalized = normalized

\* the table entries whose verb, followed by a hyphen, opens the name
LeadingVerbs(name) ==
  {k \in DOMAIN verbMappings : StartsWith(name, verbMappings[k][1] \o <<"-">>)}

\* C20: convertToGerundForm rewrites the leading '<verb>-' of a name and nothing else:
\* the verb becomes its gerund and the name from that hyphen on stays as it is, also
\* where a verb of the table occurs again; a name that no '<verb>-' opens, such as
\* avoidance-x, is returned unchanged; 'Avoid Direct State' normalizes to
\* avoiding-direct-state. Stated for the names that stay within 64 characters, which
\* the cut that follows the conversion leaves alone.
C20_GerundLeadingSegmentOnly ==
  (step >= 1 /\ Len(KebabCase(rawName)) + 5 <= maxNameLength) =>
    /\ Cardinality(LeadingVerbs(KebabCase(rawName))) <= 1
    /\ LeadingVerbs(KebabCase(rawName)) = {} => normalized = KebabCase(rawName)
    /\ \A k \in LeadingVerbs(KebabCase(rawName)) :
         normalized = verbMappings[k][2]
                        \o SubSeq(KebabCase(rawName), Len(verbMappings[k][1]) + 1,
                                  Len(KebabCase(rawName)))
    /\ rawName = <<"A","v","o","i","d"," ","D","i","r","e","c","t"," ","S","t","a","t","e">> => normalized = <<"a","v","o","i","d","i","n","g","-","d","i","r","e","c","t","-","s","t","a","t","e">>
    /\ rawName = <<"a","v","o","i","d","a","n","c","e","-","x">> => normalized = rawName
    /\ rawName = <<"a","v","o","i","d","-","u","s","e","-","a","v","o","i","d","-","x">> => normalized = <<"a","v","o","i","d","i","n","g","-","u","s","e","-","a","v","o","i","d","-","x">>
    /\ rawName = <<"m","y","-","a","v","o","i","d","-","x">> => normalized = rawName

\* a name with avoid- at its start and again further on has been normalized
C20_Witness ==
  /\ step >= 1
  /\ rawName = <<"a","v","o","i","d","-","u","s","e","-","a","v","o","i","d","-","x">>
  /\ normalized = <<"a","v","o","i","d","i","n","g","-","u","s","e","-","a","v","o","i","d","-","x">>

IsNameChar(c) == c \in LowerSet \/ c \in DigitSet \/ c = "-"

\* C2: the result of normalizeSkillName contains only [a-z0-9-] and is at most 64 long
C2_CharsetAndLength ==
  step >= 1 => /\ Len(normalized) <= maxNameLength
                /\ \A i \in 1..Len(normalized) : IsNameChar(normalized[i])

(***************************************************************************)
(* SkillManager.calculateSimilarity and findSimilarSkills                  *)
(***************************************************************************)

\* Array.prototype.join
RECURSIVE Join(_, _)
Join(strs, sep) ==
  IF Len(strs) = 0 THEN <<>>
  ELSE IF Len(strs) = 1 THEN strs[1]
  ELSE strs[1] \o sep \o Join(Tail(strs), sep)

\* text.split(/\s+/) without the empty strings it yields at the ends of the text:
\* the maximal runs of non-whitespace characters, in order
SplitSpaces(s) ==
  LET starts == {i \in 1..Len(s) : ~IsSpace(s[i]) /\ (i = 1 \/ IsSpace(s[i-1]))}
      EndOf(i) == CHOOSE j \in i..Len(s) :
                    /\ j = Len(s) \/ IsSpace(s[j+1])
                    /\ \A k \in i..j : ~IsSpace(s[k])
      Nth(k) == CHOOSE i \in starts : Cardinality({j \in starts : j < i}) = k - 1
  IN [k \in 1..Cardinality(starts) |-> SubSeq(s, Nth(k), EndOf(Nth(k)))]

\* `${skill.keywords?.join(' ') || ''}`
KeywordText(skill) ==
  IF "keywords" \in DOMAIN skill THEN Join(skill.keywords, <<" ">>) ELSE <<>>

\* `${skill.title} ${skill.description} ${keywords}`.toLowerCase()
SkillText(skill) ==
  toLowerCase(skill.title \o <<" ">> \o skill.description \o <<" ">> \o KeywordText(skill))

\* a word filter that keeps the words of three characters too
SignificantWords_FromThree(skill) == {w \in Range(SplitSpaces(SkillText(skill))) : Len(w) >= 3}

\* new Set(text.split(/\s+/).filter(w => w.length > 3))
SignificantWords(skill) == {w \in Range(SplitSpaces(SkillText(skill))) : Len(w) > 3}

\* A JavaScript number that is a quotient of two small integers is modelled as the
\* pair <<numerator, denominator>>; 0 is <<0, 1>>.
NumEq(x, y) == x[1] * y[2] = y[1] * x[2]

NumGeq(x, y) == x[1] * y[2] >= y[1] * x[2]

NumGt(x, y) == x[1] * y[2] > y[1] * x[2]

\* a quotient over the first word set instead of the union
calculateSimilarity_OverFirst(skill1, skill2) ==
  LET words1 == SignificantWords(skill1)
      words2 == SignificantWords(skill2)
  IN IF Cardinality(words1 \cup words2) = 0 THEN <<0, 1>>
     ELSE IF words1 = {} THEN <<0, 1>>
     ELSE <<Cardinality(words1 \cap words2), Cardinality(words1)>>

calculateSimilarity(skill1, skill2) ==
  LET words1 == SignificantWords(skill1)
      words2 == SignificantWords(skill2)
      intersection == {x \in words1 : x \in words2}
      union == words1 \cup words2
  IN IF Cardinality(union) = 0 THEN <<0, 1>>
     ELSE <<Cardinality(intersection), Cardinality(union)>>

\* this.similarityThreshold = 0.8
similarityThreshold == <<8, 10>>

\* a threshold test that leaves out a similarity equal to the threshold
MeetsThreshold_Strict(similarity) == NumGt(similarity, similarityThreshold)

\* similarity >= this.similarityThreshold
MeetsThreshold(similarity) == NumGeq(similarity, similarityThreshold)

\* Array.prototype.sort with (a, b) => b.similarity - a.similarity: a stable sort,
\* descending by similarity
RECURSIVE SortBySimilarity(_)
SortBySimilarity(entries) ==
  IF Len(entries) <= 1 THEN entries
  ELSE LET n == Len(entries)
           head == SortBySimilarity(SubSeq(entries, 1, n - 1))
           x == entries[n]
           ahead == {i \in 1..(n - 1) : NumGeq(head[i].similarity, x.similarity)}
           k == Cardinality(ahead)
       IN SubSeq(head, 1, k) \o <<x>> \o SubSeq(head, k + 1, n - 1)

\* a sort that is ascending by similarity
RECURSIVE SortBySimilarity_Ascending(_)
SortBySimilarity_Ascending(entries) ==
  IF Len(entries) <= 1 THEN entries
  ELSE LET n == Len(entries)
           head == SortBySimilarity_Ascending(SubSeq(entries, 1, n - 1))
           x == entries[n]
           ahead == {i \in 1..(n - 1) : NumGeq(x.similarity, head[i].similarity)}
           k == Cardinality(ahead)
       IN SubSeq(head, 1, k) \o <<x>> \o SubSeq(head, k + 1, n - 1)

\* the loop of findSimilarSkills over the skills getAllSkills returned
SimilarEntries(skill, existingSkills) ==
  LET scored == [i \in 1..Len(existingSkills) |->
                   [skill |-> existingSkills[i],
                    similarity |-> calculateSimilarity(skill, existingSkills[i])]]
  IN SelectSeq(scored, LAMBDA e : MeetsThreshold(e.similarity))

findSimilarSkills(skill, existingSkills) ==
  SortBySimilarity(SimilarEntries(skill, existingSkills))

(***************************************************************************)
(* SpecScore: calculateSimilarity on a drawn pair of skills, both ways     *)
(***************************************************************************)

SimTitles ==
  { <<>>,
    <<"A","l","p","h","a"," ","B","r","a","v","o">>,
    <<"A","L","P","H","A"," ","t","h","e"," ","b","r","a","v","o">>,
    <<"S","i","g","m","a">> }

SimDescriptions ==
  { <<>>,
    <<"d","e","l","t","a"," ","g","a","m","m","a"," ","o","m","e","g","a">>,
    <<"d","e","l","t","a"," "," ","g","a","m","m","a">>,
    <<"g","a","m","m","a","\n","o","m","e","g","a">>,
    <<"d","e","l","t","a"," ","g","a","m","m","a"," ","o","m","e","g","a"," ","k","a","p","p","a">> }

SimKeywords ==
  { <<>>,
    <<<<"o","m","e","g","a">>>>,
    <<<<"g","a","m","m","a">>, <<"o","m","e","g","a">>>> }

SimRecords ==
  {[title |-> t, description |-> d, keywords |-> k] :
     t \in SimTitles, d \in SimDescriptions, k \in SimKeywords}
    \cup {[title |-> t, description |-> <<>>] : t \in SimTitles}

InitScore ==
  /\ step = 0
  /\ skillA \in SimRecords
  /\ skillB \in SimRecords
  /\ scores = <<>>
  /\ rawName = Unused /\ normalized = Unused /\ renormalized = Unused
  /\ candidate = Unused /\ corpus = Unused /\ similar = Unused
  /\ existingSkill = Unused /\ newSkill = Unused /\ merged = Unused
  /\ files = Unused /\ dirs = Unused /\ last = Unused /\ contributed = Unused
  /\ OthersIdle

Score ==
  /\ step = 0
  /\ scores' = <<calculateSimilarity(skillA, skillB), calculateSimilarity(skillB, skillA)>>
  /\ step' = 1
  /\ UNCHANGED <<skillA, skillB, normalizeVars, findVars, mergeVars, generateVars, otherVars>>

NextScore == Score

SpecScore == InitScore /\ [][NextScore]_vars

\* C10: calculateSimilarity is symmetric, and its value lies in [0, 1]
C10_SymmetricBounded ==
  step = 1 => /\ NumEq(scores[1], scores[2])
              /\ scores[1][2] > 0
              /\ 0 <= scores[1][1]
              /\ scores[1][1] <= scores[1][2]

C10_Witness ==
  /\ step = 1
  /\ SignificantWords(skillA) # SignificantWords(skillB)
  /\ ~(SignificantWords(skillA) \subseteq SignificantWords(skillB))
  /\ scores[1][1] > 0
  /\ scores[1][1] < scores[1][2]
  /\ NumEq(scores[1], scores[2])

\* the lowercase whitespace-separated words longer than 3 characters of one text
LongWords(text) == {w \in Range(SplitSpaces(toLowerCase(text))) : Len(w) > 3}

\* the word set of a record, field by field: title, description and every keyword
RecordWords(skill) ==
  LongWords(skill.title) \cup LongWords(skill.description)
    \cup (IF "keywords" \in DOMAIN skill
          THEN UNION {LongWords(skill.keywords[i]) : i \in 1..Len(skill.keywords)}
          ELSE {})

\* C21: calculateSimilarity is the Jaccard index |W1 \cap W2| / |W1 \cup W2| of the
\* records' sets of lowercase whitespace-separated words longer than 3 characters from
\* title, description and keywords; when both sets are empty the score is 0, and
\* findSimilarSkills does not return such a pair
C21_JaccardOfWordSets ==
  step = 1 =>
    /\ RecordWords(skillA) \cup RecordWords(skillB) # {} =>
         /\ scores[1][1] = Cardinality(RecordWords(skillA) \cap RecordWords(skillB))
         /\ scores[1][2] = Cardinality(RecordWords(skillA) \cup RecordWords(skillB))
    /\ RecordWords(skillA) \cup RecordWords(skillB) = {} =>
         /\ scores[1] = <<0, 1>>
         /\ findSimilarSkills(skillA, <<skillB>>) = <<>>

\* two records that share some long words, not all, one of them through a keyword
C21_Witness ==
  /\ step = 1
  /\ "keywords" \in DOMAIN skillA
  /\ skillA.keywords # <<>>
  /\ ~(LongWords(skillA.keywords[1]) \subseteq LongWords(skillA.description))
  /\ LongWords(skillA.keywords[1]) \subseteq RecordWords(skillB)
  /\ RecordWords(skillA) # RecordWords(skillB)
  /\ scores[1][1] = Cardinality(RecordWords(skillA) \cap RecordWords(skillB))
  /\ scores[1][1] < scores[1][2]

(***************************************************************************)
(* SpecFind: findSimilarSkills on a drawn candidate and a drawn corpus     *)
(***************************************************************************)

MaxCorpus == 3

FindCandidates ==
  { [title |-> <<"A","l","p","h","a"," ","B","r","a","v","o">>, description |-> <<"d","e","l","t","a"," ","g","a","m","m","a"," ","o","m","e","g","a">>, keywords |-> <<>>],
    [title |-> <<"A","L","P","H","A"," ","t","h","e"," ","b","r","a","v","o">>, description |-> <<"d","e","l","t","a"," "," ","g","a","m","m","a">>, keywords |-> <<<<"o","m","e","g","a">>>>],
    [title |-> <<"S","i","g","m","a">>, description |-> <<>>, keywords |-> <<>>],
    [title |-> <<>>, description |-> <<>>, keywords |-> <<>>] }

\* what parseSkillFile returns has no keywords of its own
CorpusPool ==
  { [title |-> <<"A","l","p","h","a"," ","B","r","a","v","o">>, description |-> <<"d","e","l","t","a"," ","g","a","m","m","a"," ","o","m","e","g","a">>, keywords |-> <<>>],
    [title |-> <<"A","l","p","h","a"," ","B","r","a","v","o">>, description |-> <<"d","e","l","t","a"," "," ","g","a","m","m","a">>, keywords |-> <<>>],
    [title |-> <<"A","l","p","h","a"," ","B","r","a","v","o">>, description |-> <<"g","a","m","m","a","\n","o","m","e","g","a">>, keywords |-> <<>>],
    [title |-> <<"A","l","p","h","a"," ","B","r","a","v","o">>, description |-> <<"d","e","l","t","a"," ","g","a","m","m","a"," ","o","m","e","g","a"," ","k","a","p","p","a">>, keywords |-> <<>>],
    [title |-> <<>>, description |-> <<>>, keywords |-> <<>>] }

\* the fields getAllSkills adds to a parsed skill; the path tells the files apart
WithPath(skill, i) ==
  [k \in DOMAIN skill \cup {"path"} |-> IF k = "path" THEN i ELSE skill[k]]

Corpora ==
  UNION {{[i \in 1..n |-> WithPath(f[i], i)] : f \in [1..n -> CorpusPool]} : n \in 0..MaxCorpus}

InitFind ==
  /\ step = 0
  /\ candidate \in FindCandidates
  /\ corpus \in Corpora
  /\ similar = <<>>
  /\ rawName = Unused /\ normalized = Unused /\ renormalized = Unused
  /\ skillA = Unused /\ skillB = Unused /\ scores = Unused
  /\ existingSkill = Unused /\ newSkill = Unused /\ merged = Unused
  /\ files = Unused /\ dirs = Unused /\ last = Unused /\ contributed = Unused
  /\ OthersIdle

FindSimilar ==
  /\ step = 0
  /\ similar' = findSimilarSkills(candidate, corpus)
  /\ step' = 1
  /\ UNCHANGED <<candidate, corpus, normalizeVars, scoreVars, mergeVars, generateVars, otherVars>>

NextFind == FindSimilar

SpecFind == InitFind /\ [][NextFind]_vars

\* the Jaccard index of two skills, from their word sets
Jaccard(a, b) ==
  LET u == SignificantWords(a) \cup SignificantWords(b)
  IN IF u = {} THEN <<0, 1>>
     ELSE <<Cardinality(SignificantWords(a) \cap SignificantWords(b)), Cardinality(u)>>

Pick(rec, keys) == [k \in keys \cap DOMAIN rec |-> rec[k]]

\* { ...base, ...extra }
Spread(base, extra) ==
  [k \in DOMAIN base \cup DOMAIN extra |-> IF k \in DOMAIN extra THEN extra[k] ELSE base[k]]

\* (skill.keywords || []), (skill.sources || [])
ListOf(skill, key) == IF key \in DOMAIN skill THEN skill[key] ELSE <<>>

\* a filter that keeps the last occurrence of each value: a.lastIndexOf(v) === i
RemoveDuplicates_KeepLast(a) ==
  LET final == {i \in 1..Len(a) : \A j \in (i + 1)..Len(a) : a[j] # a[i]}
      Nth(k) == CHOOSE i \in final : Cardinality({j \in final : j < i}) = k - 1
  IN [k \in 1..Cardinality(final) |-> a[Nth(k)]]

\* a.filter((v, i, a) => a.indexOf(v) === i)
RemoveDuplicates(a) ==
  LET first == {i \in 1..Len(a) : \A j \in 1..(i - 1) : a[j] # a[i]}
      Nth(k) == CHOOSE i \in first : Cardinality({j \in first : j < i}) = k - 1
  IN [k \in 1..Cardinality(first) |-> a[Nth(k)]]

\* { pr: newSkill.source?.pr, author: ..., date: ..., file: ... }
SourceEntry(skill) ==
  Pick(IF "source" \in DOMAIN skill THEN skill.source ELSE <<>>,
       {"pr", "author", "date", "file"})

\* a source list that holds the incoming source alone
MergedSources_Overwrite(existing, incoming) == <<SourceEntry(incoming)>>

\* sources: [...(existingSkill.sources || []), { ... }]
MergedSources(existing, incoming) ==
  ListOf(existing, "sources") \o <<SourceEntry(incoming)>>

MergeSeparator == <<"\n","\n","-","-","-","\n","\n">>

mergeSkills(existing, incoming) ==
  Spread(existing,
         [description |-> IF incoming.description # <<>> THEN incoming.description
                          ELSE existing.description,
          instructions |-> existing.instructions \o MergeSeparator \o incoming.instructions,
          keywords |-> RemoveDuplicates(ListOf(existing, "keywords") \o ListOf(incoming, "keywords")),
          sources |-> MergedSources(existing, incoming)])

(***************************************************************************)
(* SpecMerge: mergeSkills on a drawn existing skill and a drawn new skill  *)
(***************************************************************************)

MaxSources == 2

SourcePool ==
  { [pr |-> 7, author |-> <<"a","l">>, date |-> <<"2","0","2","6","-","0","1","-","0","2">>, file |-> <<"s","r","c","/","a",".","j","s">>],
    [pr |-> 12, author |-> <<"b","o">>, date |-> <<"2","0","2","6","-","0","3","-","0","4">>, file |-> <<"N","/","A">>],
    [pr |-> 7, author |-> <<"b","o">>, date |-> <<"2","0","2","6","-","0","1","-","0","2">>, file |-> <<"N","/","A">>] }

SourceLists == UNION {[1..n -> SourcePool] : n \in 0..MaxSources}

MergeKeywords ==
  { <<>>,
    <<<<"o","m","e","g","a">>, <<"g","a","m","m","a">>>>,
    <<<<"g","a","m","m","a">>, <<"g","a","m","m","a">>, <<"k","a","p","p","a">>>> }

\* a skill as getAllSkills returns it
ParsedSample(kw) ==
  [name |-> <<"a","v","o","i","d","i","n","g","-","a","l","p","h","a">>, description |-> <<"d","e","l","t","a"," ","g","a","m","m","a"," ","o","m","e","g","a">>, title |-> <<"A","l","p","h","a"," ","B","r","a","v","o">>,
   instructions |-> <<"C","o","p","y"," ","f","i","r","s","t",".">>, keywords |-> kw,
   path |-> 1, domain |-> <<"g","e","n","e","r","a","l">>, category |-> <<"a","n","t","i","-","p","a","t","t","e","r","n","s">>, skillName |-> <<"a","v","o","i","d","i","n","g","-","a","l","p","h","a">>]

MergeExisting ==
  {ParsedSample(kw) : kw \in MergeKeywords}
    \cup {Spread(ParsedSample(kw), [sources |-> src]) : kw \in MergeKeywords, src \in SourceLists}

\* { ...skillData, source: sourceInfo }
MergeIncoming ==
  {[category |-> <<"a","n","t","i","-","p","a","t","t","e","r","n">>, skillName |-> <<"a","v","o","i","d","-","a","l","p","h","a">>, title |-> <<"A","l","p","h","a"," ","B","r","a","v","o">>,
    description |-> d, instructions |-> <<"T","h","e","n"," ","f","r","e","e","z","e",".">>, keywords |-> kw, source |-> src] :
     d \in {<<>>, <<"d","e","l","t","a"," "," ","g","a","m","m","a">>}, kw \in MergeKeywords, src \in SourcePool}
    \cup {[category |-> <<"a","n","t","i","-","p","a","t","t","e","r","n">>, skillName |-> <<"a","v","o","i","d","-","a","l","p","h","a">>, title |-> <<"A","l","p","h","a"," ","B","r","a","v","o">>,
           description |-> <<"d","e","l","t","a"," "," ","g","a","m","m","a">>, instructions |-> <<"T","h","e","n"," ","f","r","e","e","z","e",".">>] }

InitMerge ==
  /\ step = 0
  /\ existingSkill \in MergeExisting
  /\ newSkill \in MergeIncoming
  /\ merged = <<>>
  /\ rawName = Unused /\ normalized = Unused /\ renormalized = Unused
  /\ skillA = Unused /\ skillB = Unused /\ scores = Unused
  /\ candidate = Unused /\ corpus = Unused /\ similar = Unused
  /\ files = Unused /\ dirs = Unused /\ last = Unused /\ contributed = Unused
  /\ OthersIdle

Merge ==
  /\ step = 0
  /\ merged' = mergeSkills(existingSkill, newSkill)
  /\ step' = 1
  /\ UNCHANGED <<existingSkill, newSkill, normalizeVars, scoreVars, findVars, generateVars, otherVars>>

NextMerge == Merge

SpecMerge == InitMerge /\ [][NextMerge]_vars

FirstIndex(a, v) == CHOOSE i \in 1..Len(a) : a[i] = v /\ \A j \in 1..(i - 1) : a[j] # v

\* C22: the keywords of mergeSkills(A, B) are the keywords of A followed by those of B
\* without duplicates: every keyword of either list is there, none twice, and they
\* stand in the order of their first occurrence in that concatenation
C22_KeywordsDeduplicatedUnion ==
  step = 1 =>
    LET all == ListOf(existingSkill, "keywords") \o ListOf(newSkill, "keywords")
        kept == merged.keywords
    IN /\ Range(kept) = Range(all)
       /\ \A i, j \in 1..Len(kept) : i # j => kept[i] # kept[j]
       /\ \A i, j \in 1..Len(kept) :
            i < j => FirstIndex(all, kept[i]) < FirstIndex(all, kept[j])

\* a keyword both lists hold, repeated in the first one and met again in the second
C22_Witness ==
  /\ step = 1
  /\ existingSkill.keywords = <<<<"g","a","m","m","a">>, <<"g","a","m","m","a">>, <<"k","a","p","p","a">>>>
  /\ ListOf(newSkill, "keywords") = <<<<"o","m","e","g","a">>, <<"g","a","m","m","a">>>>
  /\ merged.keywords = <<<<"g","a","m","m","a">>, <<"k","a","p","p","a">>, <<"o","m","e","g","a">>>>

(***************************************************************************)
(* Regular-expression matching on character sequences                      *)
(***************************************************************************)

\* the literal lit matches s at position i
LitAt(s, i, lit) ==
  /\ i >= 1
  /\ i + Len(lit) - 1 <= Len(s)
  /\ \A k \in 1..Len(lit) : s[i + k - 1] = lit[k]

\* the literal lit (in lower case) matches s at position i under the flag i
LitAtCI(s, i, lit) ==
  /\ i >= 1
  /\ i + Len(lit) - 1 <= Len(s)
  /\ \A k \in 1..Len(lit) : toLowerChar(s[i + k - 1]) = lit[k]

\* s.includes(lit)
Includes(s, lit) == \E i \in 1..(Len(s) - Len(lit) + 1) : LitAt(s, i, lit)

\* the first position >= from at which lit matches s, or 0
IndexFrom(s, lit, from) ==
  LET hits == {i \in from..(Len(s) - Len(lit) + 1) : LitAt(s, i, lit)}
  IN IF hits = {} THEN 0 ELSE CHOOSE i \in hits : \A j \in hits : i <= j

\* \b between the characters at i - 1 and i
Boundary(s, i) ==
  LET before == i - 1 >= 1 /\ i - 1 <= Len(s) /\ IsWordChar(s[i - 1])
      after == i >= 1 /\ i <= Len(s) /\ IsWordChar(s[i])
  IN before # after

\* where \s* stops when it starts at i: the first position >= i that holds no whitespace
SkipSpaces(s, i) ==
  LET stops == {j \in i..(Len(s) + 1) : j = Len(s) + 1 \/ ~IsSpace(s[j])}
  IN CHOOSE j \in stops : \A k \in stops : j <= k

\* String.prototype.trim: drop the whitespace the string starts with and ends with
Trim(s) ==
  LET n == Len(s)
      leading == Cardinality({k \in 1..n : \A j \in 1..k : IsSpace(s[j])})
      trailing == Cardinality({k \in 1..n : \A j \in (n - k + 1)..n : IsSpace(s[j])})
  IN IF leading = n THEN <<>> ELSE SubSeq(s, leading + 1, n - trailing)

\* the end of the line that holds position i: the last position before the next "\n"
LineEnd(s, i) ==
  LET stops == {j \in i..Len(s) : j = Len(s) \/ s[j + 1] = "\n"}
  IN CHOOSE j \in stops : \A k \in stops : j <= k

\* /\bphrase\b/i matches somewhere in s, for one of the phrases
HasPhrase(s, phrases) ==
  \E i \in 1..Len(s) : \E ph \in phrases :
    Boundary(s, i) /\ LitAtCI(s, i, ph) /\ Boundary(s, i + Len(ph))

\* /\bword\s+(alt1|alt2|...)\b/i matches somewhere in s
HasWordThen(s, word, alts) ==
  \E i \in 1..Len(s) :
    /\ Boundary(s, i)
    /\ LitAtCI(s, i, word)
    /\ i + Len(word) <= Len(s)
    /\ IsSpace(s[i + Len(word)])
    /\ LET k == SkipSpaces(s, i + Len(word))
       IN \E a \in alts : LitAtCI(s, k, a) /\ Boundary(s, k + Len(a))

\* the starts of the matches that a global replace takes, scanning left to right from
\* position from: a match is taken at the first position >= from where the pattern
\* matches, and the scan goes on after that match
RECURSIVE TakenStarts(_, _, _)
TakenStarts(ends, n, from) ==
  LET hits == {i \in from..n : ends[i] > i}
  IN IF hits = {} THEN {}
     ELSE LET i == CHOOSE h \in hits : \A g \in hits : h <= g
          IN {i} \cup TakenStarts(ends, n, ends[i])

\* s.replace(re, '') for a global re: EndAt(s, i) is the position after the match of re
\* that starts at i, or 0 when re does not match at i
RemoveMatches(s, EndAt(_, _)) ==
  LET ends == [i \in 1..Len(s) |-> EndAt(s, i)]
      taken == TakenStarts(ends, Len(s), 1)
  IN Kept([j \in 1..Len(s) |->
             IF \E i \in taken : i <= j /\ j < ends[i] THEN Dropped ELSE s[j]])

\* the decimal digits of a number, as `${n}` prints it
RECURSIVE ToDecimal(_)
ToDecimal(n) ==
  IF n < 10 THEN <<DigitChars[n + 1]>>
  ELSE Append(ToDecimal(n \div 10), DigitChars[(n % 10) + 1])

\* a field of an object that may lack it; a missing field and '' are both falsy
Get(rec, key) == IF key \in DOMAIN rec THEN rec[key] ELSE <<>>

\* the body of a binding [name \in {value} |-> body]: body with name standing for
\* value, computed once, as a const declaration does
With(binding) == binding[CHOOSE name \in DOMAIN binding : TRUE]

(***************************************************************************)
(* SkillGenerator: makeConcise, hasWhenToUse, addWhenToUse                 *)
(***************************************************************************)

\* /\b(basically|essentially|simply|just)\b\s*/gi at position i
FillerWordEnd(s, i) ==
  LET words == {w \in {<<"b","a","s","i","c","a","l","l","y">>, <<"e","s","s","e","n","t","i","a","l","l","y">>, <<"s","i","m","p","l","y">>, <<"j","u","s","t">>} :
                  Boundary(s, i) /\ LitAtCI(s, i, w) /\ Boundary(s, i + Len(w))}
  IN IF words = {} THEN 0
     ELSE SkipSpaces(s, i + Len(CHOOSE w \in words : TRUE))

\* /first,?\s*you('ll| will) need to\s*/gi at position i
FirstYouEnd(s, i) ==
  IF ~LitAtCI(s, i, <<"f","i","r","s","t">>) THEN 0
  ELSE LET j == IF LitAt(s, i + 5, <<",">>) THEN i + 6 ELSE i + 5
           k == SkipSpaces(s, j)
           tails == {t \in {<<"y","o","u","'","l","l"," ","n","e","e","d"," ","t","o">>, <<"y","o","u"," ","w","i","l","l"," ","n","e","e","d"," ","t","o">>} : LitAtCI(s, k, t)}
       IN IF tails = {} THEN 0
          ELSE SkipSpaces(s, k + Len(CHOOSE t \in tails : TRUE))

\* /there are many (options|ways|approaches) (to|for)\s*/gi at position i
ThereAreManyEnd(s, i) ==
  LET head == <<"t","h","e","r","e"," ","a","r","e"," ","m","a","n","y"," ">>
      phrases == {n \o <<" ">> \o t : n \in {<<"o","p","t","i","o","n","s">>, <<"w","a","y","s">>, <<"a","p","p","r","o","a","c","h","e","s">>}, t \in {<<"t","o">>, <<"f","o","r">>}}
      hits == {ph \in phrases : LitAtCI(s, i, head \o ph)}
  IN IF hits = {} THEN 0
     ELSE SkipSpaces(s, i + Len(head) + Len(CHOOSE ph \in hits : TRUE))

\* /this (is|means|allows)\s+/gi at position i
ThisIsEnd(s, i) ==
  LET hits == {v \in {<<"i","s">>, <<"m","e","a","n","s">>, <<"a","l","l","o","w","s">>} :
                 /\ LitAtCI(s, i, <<"t","h","i","s"," ">> \o v)
                 /\ i + 5 + Len(v) <= Len(s)
                 /\ IsSpace(s[i + 5 + Len(v)])}
  IN IF hits = {} THEN 0
     ELSE SkipSpaces(s, i + 5 + Len(CHOOSE v \in hits : TRUE))

makeConcise(text) ==
  IF text = <<>> THEN <<>>
  ELSE Trim(ReplaceSpaceRuns(
         RemoveMatches(RemoveMatches(RemoveMatches(RemoveMatches(text,
           FillerWordEnd), FirstYouEnd), ThereAreManyEnd), ThisIsEnd), " "))

\* SkillGenerator.hasWhenToUse: three patterns
hasWhenToUse(text) ==
  HasPhrase(text, {<<"u","s","e"," ","w","h","e","n">>, <<"u","s","e"," ","f","o","r">>,
                   <<"w","h","e","n"," ","w","o","r","k","i","n","g">>, <<"w","h","e","n"," ","d","e","a","l","i","n","g">>, <<"w","h","e","n"," ","p","r","o","c","e","s","s","i","n","g">>, <<"w","h","e","n"," ","h","a","n","d","l","i","n","g">>})

anti_pattern == <<"a","n","t","i","-","p","a","t","t","e","r","n">>

best_practice == <<"b","e","s","t","-","p","r","a","c","t","i","c","e">>

general == <<"g","e","n","e","r","a","l">>

\* String.prototype.toUpperCase on one character
UpperOf == [c \in LowerSet |-> UpperChars[CHOOSE i \in 1..26 : LowerChars[i] = c]]

toUpperCase(s) == [i \in 1..Len(s) |-> IF s[i] \in LowerSet THEN UpperOf[s[i]] ELSE s[i]]

addWhenToUse(description, category, domain) ==
  LET domainContext == IF domain # general
                       THEN <<" ","i","n"," ">> \o toUpperCase(domain) \o <<" ","c","o","d","e","b","a","s","e">>
                       ELSE <<>>
  IN IF category = anti_pattern
     THEN description \o <<" ","U","s","e"," ","w","h","e","n"," ","r","e","v","i","e","w","i","n","g"," ","c","o","d","e">> \o domainContext \o <<" ","t","o"," ","a","v","o","i","d"," ","t","h","i","s"," ","p","a","t","t","e","r","n",".">>
     ELSE IF category = best_practice
     THEN description \o <<" ","U","s","e"," ","w","h","e","n"," ","i","m","p","l","e","m","e","n","t","i","n","g"," ","s","i","m","i","l","a","r"," ","f","u","n","c","t","i","o","n","a","l","i","t","y">> \o domainContext \o <<".">>
     ELSE description

maxDescriptionLength == 1024

\* the description with its "when to use" clause, cut to 1024 characters
EnhancedDescription(skillData) ==
  LET base == IF Get(skillData, "description") # <<>> THEN skillData.description
              ELSE Get(skillData, "title")
      domain == IF Get(skillData, "domain") # <<>> THEN skillData.domain ELSE general
      enhanced == IF hasWhenToUse(base) THEN base
                  ELSE addWhenToUse(base, Get(skillData, "category"), domain)
  IN IF Len(enhanced) > maxDescriptionLength
     THEN SubSeq(enhanced, 1, maxDescriptionLength - 3) \o <<".",".",".">>
     ELSE enhanced

\* normalizeSkillName(skillData.skillName || skillData.title)
DocumentName(skillData) ==
  normalizeSkillName(IF Get(skillData, "skillName") # <<>> THEN skillData.skillName
                     ELSE Get(skillData, "title"))

(***************************************************************************)
(* SkillGenerator.buildSkillContent                                        *)
(***************************************************************************)

\* if (sourceInfo?.pr): a PR number that is present and not 0
HasPr(source) == "pr" \in DOMAIN source /\ source.pr # 0

\* the lines "PR: #..", "Author: @..", "Date: ..", "File: .." of a metadata comment
SourceLines(sourceInfo) ==
  (IF HasPr(sourceInfo) THEN <<"P","R",":"," ","#">> \o ToDecimal(sourceInfo.pr) \o <<"\n">> ELSE <<>>)
    \o (IF Get(sourceInfo, "author") # <<>> THEN <<"A","u","t","h","o","r",":"," ","@">> \o sourceInfo.author \o <<"\n">> ELSE <<>>)
    \o (IF Get(sourceInfo, "date") # <<>> THEN <<"D","a","t","e",":"," ">> \o sourceInfo.date \o <<"\n">> ELSE <<>>)
    \o (IF Get(sourceInfo, "file") # <<>> THEN <<"F","i","l","e",":"," ">> \o sourceInfo.file \o <<"\n">> ELSE <<>>)

\* sources.forEach: one line "  - PR #n by @author" for each source that has a PR number
RECURSIVE AdditionalLines(_)
AdditionalLines(sources) ==
  IF sources = <<>> THEN <<>>
  ELSE (IF HasPr(sources[1])
        THEN <<" "," ","-"," ","P","R"," ","#">> \o ToDecimal(sources[1].pr) \o <<" ","b","y"," ","@">>
               \o (IF Get(sources[1], "author") # <<>> THEN sources[1].author ELSE <<"u","n","k","n","o","w","n">>)
               \o <<"\n">>
        ELSE <<>>)
       \o AdditionalLines(Tail(sources))

\* the trailing HTML comment of buildSkillContent
ContentMetadata(skillData, sourceInfo) ==
  <<"\n","<","!","-","-","\n","S","o","u","r","c","e"," ","M","e","t","a","d","a","t","a"," ","(","n","o","t"," ","v","i","s","i","b","l","e"," ","t","o"," ","C","l","a","u","d","e",")",":","\n">>
    \o SourceLines(sourceInfo)
    \o (IF Len(ListOf(skillData, "sources")) > 1
        THEN <<"A","d","d","i","t","i","o","n","a","l"," ","s","o","u","r","c","e","s",":","\n">> \o AdditionalLines(Tail(skillData.sources))
        ELSE <<>>)
    \o <<"-","-",">","\n">>

\* the "## Anti-Pattern" or "## Best Practice" section of buildSkillContent
CategorySection(skillData) ==
  IF Get(skillData, "category") = anti_pattern /\ Get(skillData, "antiPattern") # <<>>
  THEN <<"#","#"," ","A","n","t","i","-","P","a","t","t","e","r","n","\n","\n">> \o makeConcise(skillData.antiPattern) \o <<"\n","\n">>
  ELSE IF Get(skillData, "category") = best_practice /\ Get(skillData, "bestPractice") # <<>>
  THEN <<"#","#"," ","B","e","s","t"," ","P","r","a","c","t","i","c","e","\n","\n">> \o makeConcise(skillData.bestPractice) \o <<"\n","\n">>
  ELSE <<>>

\* The Markdown code fence. It is three grave accents in the source, a character a
\* TLA+ string cannot hold: every text of the model writes it as three apostrophes.
Fence == <<"'","'","'">>

\* the "## Examples" section of buildSkillContent
ExamplesSection(skillData) ==
  IF Get(skillData, "badExample") # <<>> \/ Get(skillData, "goodExample") # <<>>
  THEN <<"#","#"," ","E","x","a","m","p","l","e","s","\n","\n">>
         \o (IF Get(skillData, "badExample") # <<>>
             THEN <<"#","#","#"," ","B","a","d","\n","\n">> \o Fence \o <<"\n">> \o Trim(skillData.badExample) \o <<"\n">> \o Fence \o <<"\n","\n">>
             ELSE <<>>)
         \o (IF Get(skillData, "goodExample") # <<>>
             THEN <<"#","#","#"," ","G","o","o","d","\n","\n">> \o Fence \o <<"\n">> \o Trim(skillData.goodExample) \o <<"\n">> \o Fence \o <<"\n","\n">>
             ELSE <<>>)
  ELSE <<>>

\* the YAML frontmatter of buildSkillContent and of applyProgressiveDisclosure
Frontmatter(skillName, description) ==
  <<"-","-","-","\n","n","a","m","e",":"," ">> \o skillName \o <<"\n","d","e","s","c","r","i","p","t","i","o","n",":"," ">> \o description \o <<"\n","-","-","-">>

buildSkillContent(skillData, sourceInfo) ==
  Frontmatter(DocumentName(skillData), EnhancedDescription(skillData))
    \o <<"\n","\n">>
    \o <<"#"," ">> \o Get(skillData, "title") \o <<"\n","\n">>
    \o <<"#","#"," ","I","n","s","t","r","u","c","t","i","o","n","s","\n","\n">> \o makeConcise(Get(skillData, "instructions")) \o <<"\n","\n">>
    \o CategorySection(skillData)
    \o ExamplesSection(skillData)
    \o ContentMetadata(skillData, sourceInfo)

(***************************************************************************)
(* SkillGenerator.applyProgressiveDisclosure                               *)
(***************************************************************************)

maxSkillLines == 500

maxInlineCategoryLength == 500

\* content.split('\n').length
LineCount(content) == Cardinality({i \in 1..Len(content) : content[i] = "\n"}) + 1

buildExamplesFile(skillData) ==
  <<"#"," ","E","x","a","m","p","l","e","s","\n","\n">>
    \o (IF Get(skillData, "badExample") # <<>>
        THEN <<"#","#"," ","B","a","d"," ","E","x","a","m","p","l","e","\n","\n">> \o Fence \o <<"\n">> \o Trim(skillData.badExample) \o <<"\n">> \o Fence \o <<"\n","\n">>
        ELSE <<>>)
    \o (IF Get(skillData, "goodExample") # <<>>
        THEN <<"#","#"," ","G","o","o","d"," ","E","x","a","m","p","l","e","\n","\n">> \o Fence \o <<"\n">> \o Trim(skillData.goodExample) \o <<"\n">> \o Fence \o <<"\n","\n">>
        ELSE <<>>)

\* skillData.category === 'anti-pattern' ? skillData.antiPattern : skillData.bestPractice
CategoryContent(skillData) ==
  IF Get(skillData, "category") = anti_pattern THEN Get(skillData, "antiPattern")
  ELSE Get(skillData, "bestPractice")

CategoryHeading(skillData) ==
  IF Get(skillData, "category") = anti_pattern THEN <<"A","n","t","i","-","P","a","t","t","e","r","n">> ELSE <<"B","e","s","t"," ","P","r","a","c","t","i","c","e">>

buildDetailsFile(skillData) ==
  <<"#"," ">> \o CategoryHeading(skillData) \o <<" ","D","e","t","a","i","l","s","\n","\n">> \o CategoryContent(skillData) \o <<"\n">>

buildSourceMetadata(sourceInfo, additionalSources) ==
  <<"\n","<","!","-","-","\n","S","o","u","r","c","e"," ","M","e","t","a","d","a","t","a",":","\n">>
    \o SourceLines(sourceInfo)
    \o (IF Len(additionalSources) > 0
        THEN <<"A","d","d","i","t","i","o","n","a","l"," ","s","o","u","r","c","e","s",":","\n">> \o AdditionalLines(additionalSources)
        ELSE <<>>)
    \o <<"-","-",">","\n">>

SKILL_md == <<"S","K","I","L","L",".","m","d">>

EXAMPLES_md == <<"E","X","A","M","P","L","E","S",".","m","d">>

DETAILS_md == <<"D","E","T","A","I","L","S",".","m","d">>

\* the reference files applyProgressiveDisclosure writes into the skill directory:
\* a function from file name to content
ReferenceFiles(skillData) ==
  LET examples == Get(skillData, "badExample") # <<>> \/ Get(skillData, "goodExample") # <<>>
      details == Len(CategoryContent(skillData)) > maxInlineCategoryLength
  IN [f \in (IF examples THEN {EXAMPLES_md} ELSE {}) \cup (IF details THEN {DETAILS_md} ELSE {}) |->
        IF f = EXAMPLES_md THEN buildExamplesFile(skillData) ELSE buildDetailsFile(skillData)]

\* the main SKILL.md of applyProgressiveDisclosure
MainContent(skillData, sourceInfo) ==
  Frontmatter(DocumentName(skillData), EnhancedDescription(skillData))
    \o <<"\n","\n","#"," ">> \o Get(skillData, "title") \o <<"\n","\n","#","#"," ","O","v","e","r","v","i","e","w","\n","\n">>
    \o makeConcise(Get(skillData, "instructions")) \o <<"\n","\n">>
    \o (IF Get(skillData, "badExample") # <<>> \/ Get(skillData, "goodExample") # <<>>
        THEN <<"#","#"," ","E","x","a","m","p","l","e","s","\n","\n","S","e","e"," ","[","E","X","A","M","P","L","E","S",".","m","d","]","(","E","X","A","M","P","L","E","S",".","m","d",")"," ","f","o","r"," ","c","o","d","e"," ","e","x","a","m","p","l","e","s",".","\n","\n">>
        ELSE <<>>)
    \o (IF Len(CategoryContent(skillData)) > maxInlineCategoryLength
        THEN <<"#","#"," ">> \o CategoryHeading(skillData)
               \o <<" ","D","e","t","a","i","l","s","\n","\n","S","e","e"," ","[","D","E","T","A","I","L","S",".","m","d","]","(","D","E","T","A","I","L","S",".","m","d",")"," ","f","o","r"," ","d","e","t","a","i","l","e","d"," ","g","u","i","d","a","n","c","e",".","\n","\n">>
        ELSE IF CategoryContent(skillData) # <<>>
        THEN <<"#","#"," ">> \o CategoryHeading(skillData) \o <<"\n","\n">>
               \o makeConcise(CategoryContent(skillData)) \o <<"\n","\n">>
        ELSE <<>>)
    \o buildSourceMetadata(sourceInfo, ListOf(skillData, "sources"))

(***************************************************************************)
(* Frontmatter extraction: SkillManager.parseSkillFile and                 *)
(* SkillValidator.parseSkillContent                                        *)
(***************************************************************************)

\* content.match(/^---\n([\s\S]*?)\n---/): the position of the closing "\n---", or 0
FrontmatterClose(content) ==
  IF LitAt(content, 1, <<"-","-","-","\n">>) THEN IndexFrom(content, <<"\n","-","-","-">>, 5) ELSE 0

\* a frontmatter that falls back to the whole content when there are no fences
FrontmatterText_WholeContent(content) ==
  IF FrontmatterClose(content) = 0 THEN content
  ELSE SubSeq(content, 5, FrontmatterClose(content) - 1)

\* frontmatterMatch ? frontmatterMatch[1] : ''
FrontmatterText(content) ==
  IF FrontmatterClose(content) = 0 THEN <<>>
  ELSE SubSeq(content, 5, FrontmatterClose(content) - 1)

\* content.replace(/^---\n[\s\S]*?\n---\n*/, '')
BodyText(content) ==
  IF FrontmatterClose(content) = 0 THEN content
  ELSE LET after == FrontmatterClose(content) + 4
           stops == {j \in after..(Len(content) + 1) : j = Len(content) + 1 \/ content[j] # "\n"}
       IN SubSeq(content, CHOOSE j \in stops : \A k \in stops : j <= k, Len(content))

\* The capture of /key\s*(.+)/ (minSpaces = 0) or /key\s+(.+)/ (minSpaces = 1) when key
\* matches at p, as a set: empty when the pattern does not match at p. \s runs over
\* line breaks, "." does not. When only whitespace follows the key, the pattern
\* backtracks into the whitespace and captures blanks of the last line that has any.
CaptureAt(text, key, p, minSpaces) ==
  LET a == p + Len(key)
      b == SkipSpaces(text, a)
      blanks == {q \in (a + minSpaces)..Len(text) : text[q] # "\n"}
  IN IF ~LitAt(text, p, key) THEN {}
     ELSE IF b <= Len(text)
     THEN (IF b - a >= minSpaces THEN {SubSeq(text, b, LineEnd(text, b))} ELSE {})
     ELSE IF blanks = {} THEN {}
     ELSE LET q == CHOOSE x \in blanks : \A y \in blanks : x >= y
          IN {SubSeq(text, q, LineEnd(text, q))}

\* text.match(re) ? match[1].trim() : '' for re = /key\s*(.+)/ or, with atLineStart,
\* /^key\s*(.+)$/m: the first position where the pattern matches decides
MatchedValue(text, key, atLineStart, minSpaces) ==
  LET hits == {p \in 1..Len(text) :
                 /\ atLineStart => (p = 1 \/ text[p - 1] = "\n")
                 /\ CaptureAt(text, key, p, minSpaces) # {}}
  IN IF hits = {} THEN <<>>
     ELSE LET p == CHOOSE h \in hits : \A g \in hits : h <= g
          IN Trim(CHOOSE c \in CaptureAt(text, key, p, minSpaces) : TRUE)

\* content.match(/## Instructions\n([\s\S]*?)(?=\n## |$)/), trimmed
ParsedInstructions(content) ==
  LET p == IndexFrom(content, <<"#","#"," ","I","n","s","t","r","u","c","t","i","o","n","s","\n">>, 1)
      start == p + 16
      next == IndexFrom(content, <<"\n","#","#"," ">>, start)
  IN IF p = 0 THEN <<>>
     ELSE Trim(SubSeq(content, start, IF next = 0 THEN Len(content) ELSE next - 1))

parseSkillFile(content) ==
  With([yaml \in {FrontmatterText(content)} |->
    [name |-> MatchedValue(yaml, <<"n","a","m","e",":">>, FALSE, 0),
     description |-> MatchedValue(yaml, <<"d","e","s","c","r","i","p","t","i","o","n",":">>, FALSE, 0),
     title |-> MatchedValue(content, <<"#">>, TRUE, 1),
     instructions |-> ParsedInstructions(content),
     keywords |-> <<>>]])

parseSkillContent(content) ==
  With([frontmatter \in {FrontmatterText(content)} |->
    [frontmatter |-> frontmatter,
     body |-> BodyText(content),
     name |-> MatchedValue(frontmatter, <<"n","a","m","e",":">>, TRUE, 0),
     description |-> MatchedValue(frontmatter, <<"d","e","s","c","r","i","p","t","i","o","n",":">>, TRUE, 0),
     lines |-> LineCount(content)]])

(***************************************************************************)
(* SkillValidator: validateFrontmatter and validateSkill                   *)
(***************************************************************************)

SkillValidator_maxNameLength == 64

SkillValidator_maxDescriptionLength == 1024

reservedWords == {<<"a","n","t","h","r","o","p","i","c">>, <<"c","l","a","u","d","e">>}

\* /^[a-z0-9-]+$/.test(name)
IsKebabText(name) ==
  /\ name # <<>>
  /\ \A i \in 1..Len(name) : name[i] \in LowerSet \cup DigitSet \cup {"-"}

\* /<[^>]+>/.test(text)
HasXmlTag(text) ==
  \E i \in 1..Len(text) :
    /\ text[i] = "<"
    /\ i + 1 <= Len(text)
    /\ text[i + 1] # ">"
    /\ \E j \in (i + 2)..Len(text) : text[j] = ">"

isGerundForm(name) ==
  LET hyphens == {i \in 1..Len(name) : name[i] = "-"}
      firstWord == IF hyphens = {} THEN name
                   ELSE SubSeq(name, 1, (CHOOSE i \in hyphens : \A j \in hyphens : i <= j) - 1)
  IN \/ LitAt(firstWord, Len(firstWord) - 2, <<"i","n","g">>)
     \/ LitAt(name, 1, <<"s","e","t","t","i","n","g","-","u","p">>)
     \/ LitAt(name, 1, <<"w","o","r","k","i","n","g","-","w","i","t","h">>)

isFirstOrSecondPerson(text) ==
  \/ HasWordThen(text, <<"i">>, {<<"c","a","n">>, <<"w","i","l","l">>, <<"h","e","l","p">>, <<"a","m">>, <<"h","a","v","e">>})
  \/ HasWordThen(text, <<"y","o","u">>, {<<"c","a","n">>, <<"w","i","l","l">>, <<"s","h","o","u","l","d">>, <<"c","o","u","l","d">>, <<"m","a","y">>, <<"m","i","g","h","t">>, <<"a","r","e">>, <<"h","a","v","e">>})
  \/ HasWordThen(text, <<"w","e">>, {<<"c","a","n">>, <<"w","i","l","l">>, <<"s","h","o","u","l","d">>, <<"a","r","e">>, <<"h","a","v","e">>})
  \/ HasPhrase(text, {<<"h","e","l","p"," ","y","o","u">>, <<"h","e","l","p","s"," ","y","o","u">>})

\* SkillValidator.hasWhenToUse: five patterns
SkillValidator_hasWhenToUse(text) ==
  HasPhrase(text, {<<"u","s","e"," ","w","h","e","n">>, <<"u","s","e"," ","f","o","r">>,
                   <<"w","h","e","n"," ","w","o","r","k","i","n","g">>, <<"w","h","e","n"," ","d","e","a","l","i","n","g">>, <<"w","h","e","n"," ","p","r","o","c","e","s","s","i","n","g">>, <<"w","h","e","n"," ","h","a","n","d","l","i","n","g">>,
                   <<"f","o","r"," ","w","o","r","k","i","n","g">>, <<"f","o","r"," ","d","e","a","l","i","n","g">>, <<"f","o","r"," ","p","r","o","c","e","s","s","i","n","g">>, <<"f","o","r"," ","h","a","n","d","l","i","n","g">>,
                   <<"i","f"," ","t","h","e"," ","u","s","e","r">>, <<"i","f"," ","y","o","u"," ","n","e","e","d">>, <<"i","f"," ","w","o","r","k","i","n","g">>})

\* the codes of the issues validateFrontmatter pushes, in its order
validateFrontmatter(frontmatter, name, description) ==
  (IF name = <<>> THEN <<"MISSING_NAME">>
   ELSE (IF Len(name) > SkillValidator_maxNameLength THEN <<"NAME_TOO_LONG">> ELSE <<>>)
          \o (IF ~IsKebabText(name) THEN <<"INVALID_NAME_FORMAT">> ELSE <<>>)
          \o (IF \E word \in reservedWords : Includes(name, word) THEN <<"RESERVED_WORD">> ELSE <<>>)
          \o (IF ~isGerundForm(name) THEN <<"NON_GERUND_NAME">> ELSE <<>>))
    \o (IF description = <<>> THEN <<"MISSING_DESCRIPTION">>
        ELSE (IF Len(description) > SkillValidator_maxDescriptionLength
              THEN <<"DESCRIPTION_TOO_LONG">> ELSE <<>>)
               \o (IF HasXmlTag(description) THEN <<"XML_IN_DESCRIPTION">> ELSE <<>>)
               \o (IF isFirstOrSecondPerson(description) THEN <<"NON_THIRD_PERSON">> ELSE <<>>)
               \o (IF ~SkillValidator_hasWhenToUse(description) THEN <<"MISSING_WHEN_TO_USE">> ELSE <<>>))

SkillValidator_maxSkillLines == 500

\* where \w+ stops when it starts at i: the first position >= i that holds no word character
WordRunEnd(s, i) ==
  LET stops == {j \in i..(Len(s) + 1) : j = Len(s) + 1 \/ ~IsWordChar(s[j])}
  IN CHOOSE j \in stops : \A k \in stops : j <= k

\* \d{4} at position i
FourDigitsAt(s, i) ==
  /\ i >= 1
  /\ i + 3 <= Len(s)
  /\ \A k \in 0..3 : s[i + k] \in DigitSet

\* timePatterns: /before \w+ \d{4}/i, /after \w+ \d{4}/i, /starting \w+ \d{4}/i,
\* /until \w+ \d{4}/i, /as of \d{4}/i; one of them matches somewhere in content
HasTimePattern(content) ==
  \E i \in 1..Len(content) :
    \/ \E word \in {<<"b","e","f","o","r","e"," ">>, <<"a","f","t","e","r"," ">>, <<"s","t","a","r","t","i","n","g"," ">>, <<"u","n","t","i","l"," ">>} :
         /\ LitAtCI(content, i, word)
         /\ LET a == i + Len(word)
                e == WordRunEnd(content, a)
            IN e > a /\ e <= Len(content) /\ content[e] = " " /\ FourDigitsAt(content, e + 1)
    \/ LitAtCI(content, i, <<"a","s"," ","o","f"," ">>) /\ FourDigitsAt(content, i + 6)

\* where [a-zA-Z]+ stops when it starts at i
LetterRunEnd(s, i) ==
  LET stops == {j \in i..(Len(s) + 1) : j = Len(s) + 1 \/ s[j] \notin UpperSet \cup LowerSet}
  IN CHOOSE j \in stops : \A k \in stops : j <= k

\* /[a-zA-Z]:\\|\\[a-zA-Z]+\\/.test(content)
HasWindowsPath(content) ==
  \E i \in 1..Len(content) :
    \/ content[i] \in UpperSet \cup LowerSet /\ LitAt(content, i + 1, <<":", "\\">>)
    \/ /\ content[i] = "\\"
       /\ LET e == LetterRunEnd(content, i + 1)
          IN e > i + 1 /\ e <= Len(content) /\ content[e] = "\\"

\* the codes of the issues validateContent pushes, all of severity 'warning'
validateContent(content, parsed) ==
  (IF parsed.lines > SkillValidator_maxSkillLines THEN <<"TOO_MANY_LINES">> ELSE <<>>)
    \o (IF HasTimePattern(content) THEN <<"TIME_SENSITIVE_INFO">> ELSE <<>>)
    \o (IF HasWindowsPath(content) THEN <<"WINDOWS_PATHS">> ELSE <<>>)

\* the position after the match of /See \[.*?\]\(.*?\)/ that starts at i, or 0: "." stays
\* within the line, the label ends at the first "](" and the target at the first ")"
ReferenceEnd(body, i) ==
  LET a == i + 5
      closes == {j \in a..Len(body) :
                   LitAt(body, j, <<"]","(">>) /\ \A x \in a..(j - 1) : body[x] # "\n"}
      j == CHOOSE c \in closes : \A d \in closes : c <= d
      parens == {k \in (j + 2)..Len(body) :
                   body[k] = ")" /\ \A x \in (j + 2)..(k - 1) : body[x] # "\n"}
  IN IF ~LitAt(body, i, <<"S","e","e"," ","[">>) \/ closes = {} \/ parens = {} THEN 0
     ELSE (CHOOSE k \in parens : \A l \in parens : k <= l) + 1

\* ref.match(/\(([^)]+)\)/): the capture of the first "(" that is followed by a
\* character other than ")", as a set; ref ends with ")"
PathMatch(ref) ==
  LET opens == {p \in 1..(Len(ref) - 1) : ref[p] = "(" /\ ref[p + 1] # ")"}
      p == CHOOSE o \in opens : \A q \in opens : o <= q
      shuts == {q \in (p + 1)..Len(ref) : ref[q] = ")"}
  IN IF opens = {} THEN {}
     ELSE {SubSeq(ref, p + 1, (CHOOSE q \in shuts : \A r \in shuts : q <= r) - 1)}

\* referenceMatches.filter(...): the matches whose target splits at "/" into more than two parts
NestedRefs(body) ==
  LET ends == [i \in 1..Len(body) |-> ReferenceEnd(body, i)]
      taken == TakenStarts(ends, Len(body), 1)
  IN {i \in taken :
        \E target \in PathMatch(SubSeq(body, i, ends[i] - 1)) :
          Cardinality({x \in 1..Len(target) : target[x] = "/"}) + 1 > 2}

\* the codes of the issues validateStructure pushes, all of severity 'warning'
validateStructure(parsed) ==
  (IF ~Includes(parsed.body, <<"#","#"," ">>) THEN <<"NO_SECTIONS">> ELSE <<>>)
    \o (IF NestedRefs(parsed.body) # {} THEN <<"DEEPLY_NESTED_REFS">> ELSE <<>>)

\* /there are many (libraries|options|ways)/i matches somewhere in content
HasManyOptions(content) ==
  \E i \in 1..Len(content) :
    /\ LitAtCI(content, i, <<"t","h","e","r","e"," ","a","r","e"," ","m","a","n","y"," ">>)
    /\ \E alt \in {<<"l","i","b","r","a","r","i","e","s">>, <<"o","p","t","i","o","n","s">>, <<"w","a","y","s">>} : LitAtCI(content, i + 15, alt)

\* /first,? you('ll| will) need to/i matches somewhere in content
HasFirstYouNeed(content) ==
  \E i \in 1..Len(content) : \E comma \in {<<>>, <<",">>} : \E aux \in {<<"'","l","l">>, <<" ","w","i","l","l">>} :
    LitAtCI(content, i, <<"f","i","r","s","t">> \o comma \o <<" ","y","o","u">> \o aux \o <<" ","n","e","e","d"," ","t","o">>)

\* /this (is|means|allows)/i matches somewhere in content
HasThisIs(content) ==
  \E i \in 1..Len(content) : \E alt \in {<<"i","s">>, <<"m","e","a","n","s">>, <<"a","l","l","o","w","s">>} :
    LitAtCI(content, i, <<"t","h","i","s"," ">> \o alt)

\* content.match(/\b(basically|essentially|simply|just)\b/gi): how many matches
FillerWordCount(content) ==
  Cardinality({i \in 1..Len(content) :
                 \E w \in {<<"b","a","s","i","c","a","l","l","y">>, <<"e","s","s","e","n","t","i","a","l","l","y">>, <<"s","i","m","p","l","y">>, <<"j","u","s","t">>} :
                   Boundary(content, i) /\ LitAtCI(content, i, w) /\ Boundary(content, i + Len(w))})

\* new RegExp(`${concept}[^.]*is a[^.]*that[^.]*\\.`, 'i').test(content)
ExplainsConcept(content, concept) ==
  \E a \in 1..Len(content) :
    /\ LitAtCI(content, a, concept)
    /\ \E b \in (a + Len(concept))..Len(content) :
         /\ LitAtCI(content, b, <<"i","s"," ","a">>)
         /\ \E c \in (b + 4)..Len(content) :
              /\ LitAtCI(content, c, <<"t","h","a","t">>)
              /\ \E d \in (c + 4)..Len(content) :
                   /\ content[d] = "."
                   /\ \A x \in (a + Len(concept))..(d - 1) : content[x] # "."

commonConcepts == {<<"p","d","f">>, <<"j","s","o","n">>, <<"a","p","i">>, <<"h","t","t","p">>, <<"d","a","t","a","b","a","s","e">>, <<"f","u","n","c","t","i","o","n">>, <<"c","l","a","s","s">>}

\* the codes of the issues validateConciseness pushes, all of severity 'info'. A pattern
\* without the flag g gives a match array of two entries, the match and its one group,
\* which is compared with the threshold; the pattern with the flag g gives its matches.
validateConciseness(content, parsed) ==
  (IF HasManyOptions(content) /\ 2 >= 1 THEN <<"VERBOSE_CONTENT">> ELSE <<>>)
    \o (IF HasFirstYouNeed(content) /\ 2 >= 1 THEN <<"VERBOSE_CONTENT">> ELSE <<>>)
    \o (IF HasThisIs(content) /\ 2 >= 5 THEN <<"VERBOSE_CONTENT">> ELSE <<>>)
    \o (IF FillerWordCount(content) >= 3 THEN <<"VERBOSE_CONTENT">> ELSE <<>>)
    \o (IF \E concept \in commonConcepts : ExplainsConcept(content, concept)
        THEN <<"UNNECESSARY_EXPLANATION">> ELSE <<>>)

\* the issues that are pushed with severity 'error'
ErrorCodes ==
  {"FILE_ERROR", "MISSING_NAME", "NAME_TOO_LONG", "INVALID_NAME_FORMAT", "RESERVED_WORD",
   "MISSING_DESCRIPTION", "DESCRIPTION_TOO_LONG", "XML_IN_DESCRIPTION"}

\* a validateSkill without the catch clause's issue: a path that cannot be read gives no issue
validateSkill_NoFileError(tree, skillPath) ==
  With([issues \in {IF skillPath \notin DOMAIN tree THEN <<>>
       ELSE With([content \in {tree[skillPath]} |->
            With([parsed \in {parseSkillContent(content)} |->
              validateFrontmatter(parsed.frontmatter, parsed.name, parsed.description)
                \o validateContent(content, parsed)
                \o validateStructure(parsed)
                \o validateConciseness(content, parsed)])])} |->
    [valid |-> \A i \in 1..Len(issues) : issues[i] \notin ErrorCodes,
     issues |-> issues]])

\* validateSkill on the file at skillPath of a file tree: the codes of the issues in
\* the order they are pushed, and valid. readFile throws for a path that is no file,
\* and the catch clause pushes FILE_ERROR.
validateSkill(tree, skillPath) ==
  With([issues \in {IF skillPath \notin DOMAIN tree THEN <<"FILE_ERROR">>
       ELSE With([content \in {tree[skillPath]} |->
            With([parsed \in {parseSkillContent(content)} |->
              validateFrontmatter(parsed.frontmatter, parsed.name, parsed.description)
                \o validateContent(content, parsed)
                \o validateStructure(parsed)
                \o validateConciseness(content, parsed)])])} |->
    [valid |-> \A i \in 1..Len(issues) : issues[i] \notin ErrorCodes,
     issues |-> issues]])

(***************************************************************************)
(* The skills directory: SkillManager.getSkillPath, ensureDirectory,       *)
(* getDirectories, getAllSkills, getCategoryFolder                         *)
(***************************************************************************)

\* A path below skillsDir is the sequence of its segments; path.join drops the
\* segments that are empty strings.
PathJoin(segments) == SelectSeq(segments, LAMBDA seg : seg # <<>>)

getSkillPath(domain, category, skillName) == PathJoin(<<domain, category, skillName>>)

\* path.dirname
Dirname(p) == SubSeq(p, 1, Len(p) - 1)

\* fs.mkdir(dirPath, { recursive: true }): the directory and every ancestor below skillsDir
ensureDirectory(dirSet, dirPath) == dirSet \cup {SubSeq(dirPath, 1, n) : n \in 0..Len(dirPath)}

\* the directories directly below dirPath
getDirectories(dirSet, dirPath) ==
  {d \in dirSet : Len(d) = Len(dirPath) + 1 /\ SubSeq(d, 1, Len(dirPath)) = dirPath}

\* the SKILL.md files getAllSkills reads: one per domain/category/skill directory that holds one
ReadableSkillFiles(tree, dirSet) ==
  {p \in DOMAIN tree :
     /\ Len(p) = 4
     /\ p[4] = SKILL_md
     /\ SubSeq(p, 1, 1) \in getDirectories(dirSet, <<>>)
     /\ SubSeq(p, 1, 2) \in getDirectories(dirSet, SubSeq(p, 1, 1))
     /\ SubSeq(p, 1, 3) \in getDirectories(dirSet, SubSeq(p, 1, 2))}

\* The orders in which the nested loops of getAllSkills can meet the files: readdir
\* lists a directory in an order the file system picks, and the files below one
\* directory are met together.
ListingOrders(paths) ==
  LET n == Cardinality(paths)
  IN {order \in [1..n -> paths] :
        /\ \A i, j \in 1..n : i # j => order[i] # order[j]
        /\ \A i, j, k \in 1..n : \A depth \in 1..2 :
             (i < j /\ j < k /\ SubSeq(order[i], 1, depth) = SubSeq(order[k], 1, depth))
               => SubSeq(order[j], 1, depth) = SubSeq(order[i], 1, depth)}

\* getAllSkills when the loops meet the files in the given order
getAllSkills(tree, order) ==
  [i \in 1..Len(order) |->
     Spread(parseSkillFile(tree[order[i]]),
            [path |-> order[i], domain |-> order[i][1], category |-> order[i][2],
             skillName |-> order[i][3]])]

getCategoryFolder(category) ==
  IF category = anti_pattern THEN <<"a","n","t","i","-","p","a","t","t","e","r","n","s">>
  ELSE IF category = best_practice THEN <<"b","e","s","t","-","p","r","a","c","t","i","c","e","s">>
  ELSE general

(***************************************************************************)
(* Spec: SkillGenerator.generateSkill, called again and again on one       *)
(* skills directory                                                        *)
(***************************************************************************)

MaxCalls == 2

\* a classification result as AIProcessor.parseResponse returns it (confidence, which
\* generateSkill does not read, left out)
Classification(category, skillName, title, description, keywords, domain) ==
  [category |-> category, skillName |-> skillName, title |-> title,
   description |-> description,
   instructions |-> <<"J","u","s","t"," ","c","o","p","y"," ","t","h","e"," ","s","t","a","t","e",".">>,
   antiPattern |-> IF category = anti_pattern THEN <<"M","u","t","a","t","i","n","g"," ","t","h","e"," ","s","t","o","r","e",".">> ELSE <<>>,
   bestPractice |-> IF category = best_practice THEN <<"H","o","o","k","s"," ","k","e","e","p"," ","e","f","f","e","c","t","s"," ","l","o","c","a","l",".">> ELSE <<>>,
   badExample |-> IF category = anti_pattern THEN <<" ","s","t","a","t","e",".","x"," ","="," ","1","\n">> ELSE <<>>,
   goodExample |-> <<>>,
   domain |-> domain, keywords |-> keywords]

SkillInputs ==
  { Classification(anti_pattern, <<"a","v","o","i","d","-","m","u","t","a","t","i","o","n">>, <<"A","v","o","i","d"," ","M","u","t","a","t","i","o","n">>, <<"U","s","e"," ","w","h","e","n"," ","r","e","v","i","e","w","i","n","g"," ","s","t","o","r","e","s">>, <<>>, general),
    Classification(anti_pattern, <<"a","v","o","i","d","-","m","u","t","a","t","i","o","n">>, <<"A","v","o","i","d"," ","M","u","t","a","t","i","o","n">>, <<"U","s","e"," ","w","h","e","n"," ","r","e","v","i","e","w","i","n","g">>, <<>>, general),
    Classification(anti_pattern, <<"a","v","o","i","d","-","m","u","t","a","t","i","o","n">>, <<"A","v","o","i","d"," ","M","u","t","a","t","i","o","n">>, <<" ">>, <<<<"w","h","e","n">>, <<"r","e","v","i","e","w","i","n","g">>, <<"s","t","o","r","e","s">>>>, general),
    Classification(anti_pattern, <<"!","!","!">>, <<"A","v","o","i","d"," ","M","u","t","a","t","i","o","n">>, <<"N","e","v","e","r"," ","m","u","t","a","t","e"," ","p","r","o","p","s">>, <<>>, general),
    Classification(best_practice, <<"C","l","a","u","d","e"," ","T","i","p","s">>, <<"P","r","o","m","p","t"," ","T","i","p","s">>, <<"U","s","e"," ","f","o","r"," ","p","r","o","m","p","t","s">>, <<>>, general),
    Classification(best_practice, <<"p","r","e","f","e","r","-","h","o","o","k","s">>, <<"P","r","e","f","e","r"," ","H","o","o","k","s">>, <<"H","o","o","k","s"," ","s","i","m","p","l","i","f","y"," ","e","f","f","e","c","t","s",".">>, <<<<"h","o","o","k","s">>>>, <<"o","h","i","f">>) }

\* sourceInfo as process-comment.js builds it
SourceInputs ==
  { [pr |-> 7, author |-> <<"a","l">>, date |-> <<"2","0","2","6","-","0","1","-","0","2">>, file |-> <<"s","r","c","/","a",".","j","s">>],
    [pr |-> 12, author |-> <<"b","o">>, date |-> <<"2","0","2","6","-","0","3","-","0","4">>, file |-> <<"N","/","A">>] }

Init ==
  /\ step = 0
  /\ files = <<>>
  /\ dirs = {}
  /\ last = <<>>
  /\ contributed = <<>>
  /\ rawName = Unused /\ normalized = Unused /\ renormalized = Unused
  /\ skillA = Unused /\ skillB = Unused /\ scores = Unused
  /\ candidate = Unused /\ corpus = Unused /\ similar = Unused
  /\ existingSkill = Unused /\ newSkill = Unused /\ merged = Unused
  /\ OthersIdle

\* the largest similarity of an existing skill to the query, 0 when there is none
BestSimilarity(query, existingSkills) ==
  IF existingSkills = <<>> THEN <<0, 1>>
  ELSE LET sim(i) == calculateSimilarity(query, existingSkills[i])
           i == CHOOSE x \in 1..Len(existingSkills) :
                  \A y \in 1..Len(existingSkills) : NumGeq(sim(x), sim(y))
       IN sim(i)

\* generateSkill(skillData, sourceInfo) on the file tree and the directories given, when
\* getAllSkills meets the files in the given order: the files and directories it leaves,
\* what it returns, the line count of the content buildSkillContent rendered, the
\* reference files applyProgressiveDisclosure wrote, and the largest similarity it found
generateSkill(tree, dirSet, skillData, sourceInfo, order) ==
  LET normalizedName == normalizeSkillName(skillData.skillName)
      categoryFolder == getCategoryFolder(skillData.category)
      detectedDomain == IF skillData.domain # <<>> THEN skillData.domain ELSE general
      rooted == ensureDirectory(dirSet, <<>>)
      query == [title |-> skillData.title, description |-> skillData.description,
                keywords |-> ListOf(skillData, "keywords")]
  IN With([existingSkills \in {getAllSkills(tree, order)} |->
     With([similarSkills \in {findSimilarSkills(query, existingSkills)} |->
     With([merging \in {Len(similarSkills) > 0} |->
     With([finalSkillData \in {IF merging
          THEN mergeSkills(similarSkills[1].skill, Spread(skillData, [source |-> sourceInfo]))
          ELSE skillData} |->
     With([skillDir \in {IF merging THEN Dirname(similarSkills[1].skill.path)
          ELSE getSkillPath(detectedDomain, categoryFolder, normalizedName)} |->
     With([skillPath \in {IF merging THEN similarSkills[1].skill.path ELSE skillDir \o <<SKILL_md>>} |->
     With([whole \in {buildSkillContent(finalSkillData, sourceInfo)} |->
     With([split \in {LineCount(whole) > maxSkillLines} |->
     With([content \in {IF split THEN MainContent(finalSkillData, sourceInfo) ELSE whole} |->
     With([references \in {IF split THEN ReferenceFiles(finalSkillData) ELSE <<>>} |->
     With([referencePaths \in {{skillDir \o <<f>> : f \in DOMAIN references}} |->
     With([written \in {[p \in DOMAIN tree \cup referencePaths \cup {skillPath} |->
             IF p = skillPath THEN content
             ELSE IF p \in referencePaths THEN references[p[Len(p)]]
             ELSE tree[p]]} |->
       [files |-> written,
        dirs |-> IF merging THEN rooted ELSE ensureDirectory(rooted, skillDir),
        result |-> [path |-> skillPath, isNew |-> ~merging, merged |-> merging,
                    validation |-> validateSkill(written, skillPath)],
        lineCount |-> LineCount(whole),
        referenceFiles |-> referencePaths,
        bestSimilarity |-> BestSimilarity(query, existingSkills)]])])])])])])])])])])])])

\* one call of generateSkill on a classification drawn from inputs
GenerateSkillFrom(inputs) ==
  /\ step < MaxCalls
  /\ \E skillData \in inputs, sourceInfo \in SourceInputs :
       \E order \in ListingOrders(ReadableSkillFiles(files, dirs)) :
         \E call \in {generateSkill(files, dirs, skillData, sourceInfo, order)} :
           /\ files' = call.files
           /\ dirs' = call.dirs
           /\ last' = Spread(call.result,
                             [skillData |-> skillData, sourceInfo |-> sourceInfo,
                              lineCount |-> call.lineCount,
                              referenceFiles |-> call.referenceFiles,
                              bestSimilarity |-> call.bestSimilarity])
           /\ contributed' =
                [p \in DOMAIN contributed \cup {call.result.path} |->
                   IF p # call.result.path THEN contributed[p]
                   ELSE IF call.result.merged /\ p \in DOMAIN contributed
                   THEN contributed[p] \cup {sourceInfo}
                   ELSE {sourceInfo}]
  /\ step' = step + 1
  /\ UNCHANGED <<normalizeVars, scoreVars, findVars, mergeVars, otherVars>>

GenerateSkill == GenerateSkillFrom(SkillInputs)

Next == GenerateSkill

Spec == Init /\ [][Next]_vars

(***************************************************************************)
(* Properties of the documents generateSkill leaves behind                  *)
(***************************************************************************)

\* the SKILL.md files below skillsDir
WrittenSkillFiles == {p \in DOMAIN files : p[Len(p)] = SKILL_md}

\* ^[a-z0-9]+(-[a-z0-9]+)*$, at most 64 characters, no reserved word
IsNormalizedName(name) ==
  /\ name # <<>>
  /\ Len(name) <= 64
  /\ \A i \in 1..Len(name) : name[i] \in LowerSet \cup DigitSet \cup {"-"}
  /\ name[1] # "-"
  /\ name[Len(name)] # "-"
  /\ ~Includes(name, <<"-","-">>)
  /\ ~Includes(name, <<"a","n","t","h","r","o","p","i","c">>)
  /\ ~Includes(name, <<"c","l","a","u","d","e">>)

\* C3: every SKILL.md that generateSkill has written lies in a skill directory of its
\* own (domain/category/name/SKILL.md, no segment empty) and its frontmatter name is a
\* non-empty NormalizedName.
C3_NamesNormalized ==
  \A p \in WrittenSkillFiles :
    /\ Len(p) = 4
    /\ IsNormalizedName(parseSkillContent(files[p]).name)

\* C4: every SKILL.md that generateSkill has written has a frontmatter description that
\* is not empty and is at most 1024 characters long.
C4_DescriptionsBounded ==
  \A p \in WrittenSkillFiles :
    /\ parseSkillContent(files[p]).description # <<>>
    /\ Len(parseSkillContent(files[p]).description) <= 1024

\* C5: when the classification handed to generateSkill has category anti-pattern or
\* best-practice, validating the file the call has just written yields valid = true.
C5_GeneratedSkillsValid ==
  (step > 0 /\ last.skillData.category \in {anti_pattern, best_practice})
    => last.validation.valid

\* the trailing HTML comment of a document: from its last "\n<!--\n" on
MetadataBlock(doc) ==
  LET opens == {i \in 1..Len(doc) : LitAt(doc, i, <<"\n","<","!","-","-","\n">>)}
  IN IF opens = {} THEN <<>>
     ELSE SubSeq(doc, CHOOSE i \in opens : \A j \in opens : i >= j, Len(doc))

\* the block names the PR and the author of the source, as the main source or as an
\* additional one
ListsSource(block, source) ==
  \/ Includes(block, <<"P","R",":"," ","#">> \o ToDecimal(source.pr) \o <<"\n","A","u","t","h","o","r",":"," ","@">> \o source.author \o <<"\n">>)
  \/ Includes(block, <<" "," ","-"," ","P","R"," ","#">> \o ToDecimal(source.pr) \o <<" ","b","y"," ","@">> \o source.author \o <<"\n">>)

\* C6: the metadata block of every SKILL.md lists the source of every call that created
\* the document or merged into it.
C6_AttributionKept ==
  \A p \in DOMAIN contributed :
    \A source \in contributed[p] : ListsSource(MetadataBlock(files[p]), source)

\* C9: a call of generateSkill merges only when the most similar existing skill has a
\* similarity strictly above 0.8, and creates a new skill file otherwise.
C9_MergeOnlyAboveThreshold ==
  step > 0 =>
    /\ last.merged => NumGt(last.bestSimilarity, similarityThreshold)
    /\ ~NumGt(last.bestSimilarity, similarityThreshold) => last.isNew

(***************************************************************************)
(* SpecDisclose: generateSkill on classifications whose rendered content   *)
(* is longer than maxSkillLines                                            *)
(***************************************************************************)

\* how far the long texts go beyond the limits of 500 lines and 500 characters
Excess == 5

\* n lines "x"
Lines(n) == [i \in 1..(2 * n) |-> IF i % 2 = 1 THEN "x" ELSE "\n"]

\* n line breaks
Breaks(n) == [i \in 1..n |-> "\n"]

LongSkillInputs ==
  { Spread(Classification(anti_pattern, <<"a","v","o","i","d","-","l","o","n","g","-","e","x","a","m","p","l","e">>, <<"L","o","n","g"," ","E","x","a","m","p","l","e">>, <<"U","s","e"," ","w","h","e","n"," ","r","e","v","i","e","w","i","n","g"," ","e","x","a","m","p","l","e","s">>, <<>>, general),
           [badExample |-> Lines(maxSkillLines + Excess)]),
    Spread(Classification(best_practice, <<"u","s","e","-","l","o","n","g","-","d","e","t","a","i","l","s">>, <<"L","o","n","g"," ","D","e","t","a","i","l","s">>, <<"U","s","e"," ","f","o","r"," ","l","o","n","g"," ","d","e","t","a","i","l","s">>, <<>>, general),
           [goodExample |-> Lines(maxSkillLines + Excess), bestPractice |-> Fill(maxInlineCategoryLength + Excess)]),
    Spread(Classification(anti_pattern, <<"a","v","o","i","d","-","l","o","n","g","-","p","a","t","t","e","r","n">>, <<"L","o","n","g"," ","P","a","t","t","e","r","n">>, <<"U","s","e"," ","w","h","e","n"," ","s","p","l","i","t","t","i","n","g"," ","p","a","t","t","e","r","n","s">>, <<>>, general),
           [badExample |-> Lines(maxSkillLines + Excess), antiPattern |-> Fill(maxInlineCategoryLength + Excess)]),
    Classification(best_practice, <<"p","r","e","f","e","r","-","l","o","n","g","-","t","i","t","l","e">>, <<"L","o","n","g"," ","T","i","t","l","e">> \o Breaks(maxSkillLines + Excess), <<"U","s","e"," ","f","o","r"," ","l","o","n","g"," ","t","i","t","l","e","s">>, <<>>, general),
    Classification(anti_pattern, <<"a","v","o","i","d","-","l","o","n","g","-","t","i","t","l","e">>, <<"T","a","l","l"," ","T","i","t","l","e">> \o Breaks(maxSkillLines + Excess), <<"U","s","e"," ","w","h","e","n"," ","r","e","v","i","e","w","i","n","g"," ","t","i","t","l","e","s">>, <<>>, general),
    Classification(anti_pattern, <<"a","v","o","i","d","-","m","u","t","a","t","i","o","n">>, <<"A","v","o","i","d"," ","M","u","t","a","t","i","o","n">>, <<"U","s","e"," ","w","h","e","n"," ","r","e","v","i","e","w","i","n","g"," ","s","t","o","r","e","s">>, <<>>, general) }

GenerateLongSkill == GenerateSkillFrom(LongSkillInputs)

NextDisclose == GenerateLongSkill

SpecDisclose == Init /\ [][NextDisclose]_vars

\* C11: when the content buildSkillContent rendered has more than 500 lines, the SKILL.md
\* the call wrote has at most 500 lines, the call wrote at least one reference document,
\* and the SKILL.md holds a pointer "See [NAME.md]" for each reference document written.
C11_LongContentIsSplit ==
  (step > 0 /\ last.lineCount > maxSkillLines) =>
    /\ LineCount(files[last.path]) <= maxSkillLines
    /\ last.referenceFiles # {}
    /\ \A p \in last.referenceFiles :
         /\ p \in DOMAIN files
         /\ Includes(files[last.path], <<"S","e","e"," ","[">> \o p[Len(p)] \o <<"]">>)

\* a call whose long examples were moved to EXAMPLES.md, leaving a short SKILL.md
C11_SplitReached ==
  /\ step > 0
  /\ last.lineCount > maxSkillLines
  /\ LineCount(files[last.path]) <= maxSkillLines
  /\ last.referenceFiles # {}

(***************************************************************************)
(* SpecParse: buildSkillContent on one classification, then both parsers   *)
(* on the content it returned                                              *)
(***************************************************************************)

ParseNames == {<<"a","v","o","i","d","-","m","u","t","a","t","i","o","n">>, <<"P","r","e","f","e","r"," ","H","o","o","k","s">>, <<"u","s","e","_","i","m","m","e","r","!">>, <<"!","!","!">>}

ParseTitles == {<<"A","v","o","i","d"," ","M","u","t","a","t","i","o","n">>, <<"P","r","e","f","e","r",":"," ","H","o","o","k","s">>}

ParseDescriptions ==
  { <<"U","s","e"," ","w","h","e","n"," ","r","e","v","i","e","w","i","n","g"," ","s","t","o","r","e","s">>, <<"H","o","o","k","s"," ","s","i","m","p","l","i","f","y"," ","e","f","f","e","c","t","s",".">>, <<"U","s","e"," ","f","o","r"," ","s","t","o","r","e","s",".","\n","A","p","p","l","i","e","s"," ","t","o"," ","r","e","d","u","c","e","r","s",".">>,
    <<" ","U","s","e"," ","w","h","e","n"," ","p","a","d","d","e","d"," ">>, <<"U","s","e"," ","w","h","e","n"," ","a",":"," ","b"," ","-","-","-"," ","c">>, <<>>,
    <<"H","e","l","p","s"," ","i","f"," ","y","o","u"," ","n","e","e","d"," ","s","t","a","b","l","e"," ","s","t","a","t","e">> }

ParseInputs ==
  { [skillData |-> Classification(category, skillName, title, description, <<>>, general),
     sourceInfo |-> sourceInfo] :
      category \in {anti_pattern, best_practice}, skillName \in ParseNames, title \in ParseTitles,
      description \in ParseDescriptions, sourceInfo \in {s \in SourceInputs : s.pr = 7} }

InitParse ==
  /\ step = 0
  /\ skillInput \in ParseInputs
  /\ document = Unused /\ parsedFile = Unused /\ parsedContent = Unused /\ validation = Unused
  /\ MainIdle /\ ConcurrentIdle
  /\ rawName = Unused /\ normalized = Unused /\ renormalized = Unused
  /\ skillA = Unused /\ skillB = Unused /\ scores = Unused
  /\ candidate = Unused /\ corpus = Unused /\ similar = Unused
  /\ existingSkill = Unused /\ newSkill = Unused /\ merged = Unused
  /\ files = Unused /\ dirs = Unused /\ last = Unused /\ contributed = Unused

BuildSkillContent ==
  /\ document = Unused
  /\ document' = buildSkillContent(skillInput.skillData, skillInput.sourceInfo)
  /\ step' = step + 1
  /\ UNCHANGED <<skillInput, parsedFile, parsedContent, validation,
                 normalizeVars, scoreVars, findVars, mergeVars, generateVars, mainVars, concurrentVars>>

ParseSkillFile ==
  /\ document # Unused
  /\ parsedFile = Unused
  /\ parsedFile' = parseSkillFile(document)
  /\ step' = step + 1
  /\ UNCHANGED <<skillInput, document, parsedContent, validation,
                 normalizeVars, scoreVars, findVars, mergeVars, generateVars, mainVars, concurrentVars>>

ParseSkillContent ==
  /\ document # Unused
  /\ parsedContent = Unused
  /\ parsedContent' = parseSkillContent(document)
  /\ step' = step + 1
  /\ UNCHANGED <<skillInput, document, parsedFile, validation,
                 normalizeVars, scoreVars, findVars, mergeVars, generateVars, mainVars, concurrentVars>>

NextParse == BuildSkillContent \/ ParseSkillFile \/ ParseSkillContent

SpecParse == InitParse /\ [][NextParse]_vars

\* C12: parseSkillFile and parseSkillContent, applied to the content buildSkillContent
\* returned, give back the name and the description that were written into its frontmatter
C12_RoundTrip ==
  /\ parsedFile # Unused =>
       /\ parsedFile.name = DocumentName(skillInput.skillData)
       /\ parsedFile.description = EnhancedDescription(skillInput.skillData)
  /\ parsedContent # Unused =>
       /\ parsedContent.name = DocumentName(skillInput.skillData)
       /\ parsedContent.description = EnhancedDescription(skillInput.skillData)

\* the round trip restricted to a non-empty name and a description of one line
\* without blanks around it
C12_PlainRoundTrip ==
  LET name == DocumentName(skillInput.skillData)
      description == EnhancedDescription(skillInput.skillData)
      plain == /\ name # <<>>
               /\ Trim(description) = description
               /\ ~Includes(description, <<"\n">>)
  IN /\ (plain /\ parsedFile # Unused) =>
          (parsedFile.name = name /\ parsedFile.description = description)
     /\ (plain /\ parsedContent # Unused) =>
          (parsedContent.name = name /\ parsedContent.description = description)

(***************************************************************************)
(* SpecValidate: validateSkill on a path of a skills directory that holds  *)
(* one document                                                            *)
(***************************************************************************)

DocumentHeads ==
  { <<>>,
    <<"-","-","-","\n","n","a","m","e",":"," ","a","v","o","i","d","i","n","g","-","x","\n","d","e","s","c","r","i","p","t","i","o","n",":"," ","U","s","e"," ","w","h","e","n"," ","r","e","v","i","e","w","i","n","g","\n","-","-","-","\n">>,
    <<"-","-","-","\n","n","a","m","e",":"," ","c","l","a","u","d","e","-","x","\n","-","-","-","\n">>,
    <<"-","-","-","\n","d","e","s","c","r","i","p","t","i","o","n",":"," ","<","b",">","b","o","l","d","<","/","b",">","\n","-","-","-","\n">>,
    <<"-","-","-","\n","n","a","m","e",":"," ","A","v","o","i","d"," ","X","\n","d","e","s","c","r","i","p","t","i","o","n",":"," ","Y","o","u"," ","c","a","n"," ","u","s","e"," ","i","t","\n","-","-","-">>,
    <<"-","-","-"," ","\n","n","a","m","e",":"," ","a","v","o","i","d","i","n","g","-","x","\n","d","e","s","c","r","i","p","t","i","o","n",":"," ","U","s","e"," ","w","h","e","n"," ","r","e","v","i","e","w","i","n","g","\n","-","-","-","\n">>,
    <<"n","a","m","e",":"," ","a","v","o","i","d","i","n","g","-","x","\n","d","e","s","c","r","i","p","t","i","o","n",":"," ","U","s","e"," ","w","h","e","n"," ","r","e","v","i","e","w","i","n","g","\n">>,
    <<"\n","-","-","-","\n","n","a","m","e",":"," ","a","v","o","i","d","i","n","g","-","x","\n","d","e","s","c","r","i","p","t","i","o","n",":"," ","U","s","e"," ","w","h","e","n"," ","r","e","v","i","e","w","i","n","g","\n","-","-","-","\n">>,
    <<"-","-","-","\n","n","a","m","e",":"," ","a","v","o","i","d","i","n","g","-","x","\n","d","e","s","c","r","i","p","t","i","o","n",":"," ","U","s","e"," ","w","h","e","n"," ","r","e","v","i","e","w","i","n","g","\n">>,
    <<"-","-","-","\n","n","a","m","e",":"," ","\n","d","e","s","c","r","i","p","t","i","o","n",":"," ","U","s","e"," ","w","h","e","n"," ","r","e","v","i","e","w","i","n","g","\n","-","-","-","\n">>,
    <<"-","-","-","\n","n","a","m","e",":"," ","a","v","o","i","d","i","n","g","-","x","\n","d","e","s","c","r","i","p","t","i","o","n",":","\n","-","-","-","\n">>,
    <<"-","-","-","\n","d","e","s","c","r","i","p","t","i","o","n",":"," ","\n","l","i","c","e","n","s","e",":"," ","M","I","T","\n","n","a","m","e",":"," ","a","v","o","i","d","i","n","g","-","x","\n","-","-","-","\n">> }

DocumentBodies ==
  { <<>>,
    <<"#"," ","T","i","t","l","e","\n","\n","#","#"," ","I","n","s","t","r","u","c","t","i","o","n","s","\n","\n","D","o"," ","i","t",".","\n">>,
    <<"#"," ","T","\n","V","a","l","i","d"," ","u","n","t","i","l"," ","M","a","r","c","h"," ","2","0","2","5","."," ","S","e","e"," ","[","a","]","(","b","/","c","/","d",")","\n">>,
    <<"J","u","s","t"," ","s","i","m","p","l","y"," ","b","a","s","i","c","a","l","l","y"," ","u","s","e"," ","C",":">> \o <<"\\">> \o <<"t","m","p","\n">>,
    <<"A","n"," ","A","P","I"," ","i","s"," ","a"," ","t","h","i","n","g"," ","t","h","a","t"," ","w","o","r","k","s",".","\n","#","#"," ","S","\n">>,
    <<"#","#"," ","U","s","e","\n","T","h","i","s"," ","i","s"," ","a","."," ","T","h","i","s"," ","i","s"," ","b","."," ","T","h","i","s"," ","m","e","a","n","s"," ","c","."," ","T","h","i","s"," ","a","l","l","o","w","s"," ","d","."," ","t","h","i","s"," ","i","s"," ","e",".","\n">>,
    <<"#","#"," ","U","s","e","\n","T","h","e","r","e"," ","a","r","e"," ","m","a","n","y"," ","w","a","y","s","."," ","T","h","i","s"," ","i","s"," ","i","t",".","\n">> }

DocumentPool ==
  {head \o body : head \in DocumentHeads, body \in DocumentBodies}
    \cup {Lines(SkillValidator_maxSkillLines \div 2 + 1)}

ValidatedFile == <<<<"g","e","n","e","r","a","l">>, <<"a","n","t","i","-","p","a","t","t","e","r","n","s">>, <<"a","v","o","i","d","i","n","g","-","x">>, SKILL_md>>

\* the file, a path that does not exist, and a directory
ValidatePaths ==
  {ValidatedFile, <<<<"g","e","n","e","r","a","l">>, <<"a","n","t","i","-","p","a","t","t","e","r","n","s">>, <<"a","v","o","i","d","i","n","g","-","y">>, SKILL_md>>, Dirname(ValidatedFile)}

InitValidate ==
  /\ step = 0
  /\ \E content \in DocumentPool : files = [p \in {ValidatedFile} |-> content]
  /\ dirs = ensureDirectory({}, Dirname(ValidatedFile))
  /\ validation = Unused
  /\ skillInput = Unused /\ document = Unused /\ parsedFile = Unused /\ parsedContent = Unused
  /\ MainIdle /\ ConcurrentIdle
  /\ rawName = Unused /\ normalized = Unused /\ renormalized = Unused
  /\ skillA = Unused /\ skillB = Unused /\ scores = Unused
  /\ candidate = Unused /\ corpus = Unused /\ similar = Unused
  /\ existingSkill = Unused /\ newSkill = Unused /\ merged = Unused
  /\ last = Unused /\ contributed = Unused

\* one call of validateSkill
ValidateSkill ==
  /\ step = 0
  /\ \E skillPath \in ValidatePaths :
       validation' = Spread(validateSkill(files, skillPath), [skillPath |-> skillPath])
  /\ step' = 1
  /\ UNCHANGED <<skillInput, document, parsedFile, parsedContent,
                 normalizeVars, scoreVars, findVars, mergeVars, generateVars, mainVars, concurrentVars>>

NextValidate == ValidateSkill

SpecValidate == InitValidate /\ [][NextValidate]_vars

\* the codes of the issues of severity 'error' in a result of validateSkill
ErrorsOf(result) == {result.issues[i] : i \in {j \in 1..Len(result.issues) : result.issues[j] \in ErrorCodes}}

LineStarts(text) == {i \in 1..Len(text) : i = 1 \/ text[i - 1] = "\n"}

\* the frontmatter field of a document is empty: no line of the frontmatter that
\* begins with the key has anything but blanks after it
FieldIsEmpty(content, key) ==
  \A i \in LineStarts(FrontmatterText(content)) :
    LitAt(FrontmatterText(content), i, key) =>
      Trim(SubSeq(FrontmatterText(content), i + Len(key),
                  LineEnd(FrontmatterText(content), i))) = <<>>

\* C23: for a document whose frontmatter name field is empty, absent or blank,
\* validateSkill reports MISSING_NAME, and for one whose description field is empty
\* it reports MISSING_DESCRIPTION, whatever the other frontmatter lines hold
C23_EmptyFieldsReported ==
  (validation # Unused /\ validation.skillPath \in DOMAIN files) =>
    /\ FieldIsEmpty(files[validation.skillPath], <<"n","a","m","e",":">>)
         => "MISSING_NAME" \in Range(validation.issues)
    /\ FieldIsEmpty(files[validation.skillPath], <<"d","e","s","c","r","i","p","t","i","o","n",":">>)
         => "MISSING_DESCRIPTION" \in Range(validation.issues)

\* how often /this (is|means|allows)/i occurs in content
ThisIsCount(content) ==
  Cardinality({i \in 1..Len(content) :
                 \E alt \in {<<"i","s">>, <<"m","e","a","n","s">>, <<"a","l","l","o","w","s">>} : LitAtCI(content, i, <<"t","h","i","s"," ">> \o alt)})

\* how many issues of a result carry the code
IssueCount(result, code) ==
  Cardinality({i \in 1..Len(result.issues) : result.issues[i] = code})

\* C24: validateConciseness reports VERBOSE_CONTENT once for every filler-phrase
\* pattern whose number of occurrences in the document reaches its threshold, and for
\* no other: 5 for this is/means/allows, 3 for the filler words, 1 for "there are
\* many ..." and for "first, you'll need to"
C24_VerboseAtThreshold ==
  (validation # Unused /\ validation.skillPath \in DOMAIN files) =>
    IssueCount(validation, "VERBOSE_CONTENT")
      = (IF HasManyOptions(files[validation.skillPath]) THEN 1 ELSE 0)
        + (IF HasFirstYouNeed(files[validation.skillPath]) THEN 1 ELSE 0)
        + (IF ThisIsCount(files[validation.skillPath]) >= 5 THEN 1 ELSE 0)
        + (IF FillerWordCount(files[validation.skillPath]) >= 3 THEN 1 ELSE 0)

(***************************************************************************)
(* AIProcessor: parseResponse and fallbackCategorization                   *)
(***************************************************************************)

neutral == <<"n","e","u","t","r","a","l">>

\* the value JSON.parse gives for the text null: it has no members, and reading one throws
JsonNull == [null |-> TRUE]

\* JSON.parse on the texts in use: the text and the value it stands for, an object as a
\* record of its members, a number as a quotient. JSON.parse throws a SyntaxError for
\* every other text.
JsonTable ==
  { [text |-> <<"{","\"","c","a","t","e","g","o","r","y","\"",":","\"","a","n","t","i","-","p","a","t","t","e","r","n","\"",",","\"","c","o","n","f","i","d","e","n","c","e","\"",":","0",".","9",",","\"","s","k","i","l","l","N","a","m","e","\"",":","\"","a","v","o","i","d","-","m","u","t","a","t","i","o","n","\"",",","\"","t","i","t","l","e","\"",":","\"","A","v","o","i","d"," ","M","u","t","a","t","i","o","n","\"",",","\"","d","e","s","c","r","i","p","t","i","o","n","\"",":","\"","U","s","e"," ","w","h","e","n"," ","r","e","v","i","e","w","i","n","g"," ","s","t","o","r","e","s","\"",",","\"","d","o","m","a","i","n","\"",":","\"","g","e","n","e","r","a","l","\"","}">>,
     value |-> [category |-> anti_pattern, confidence |-> <<9, 10>>, skillName |-> <<"a","v","o","i","d","-","m","u","t","a","t","i","o","n">>,
                title |-> <<"A","v","o","i","d"," ","M","u","t","a","t","i","o","n">>, description |-> <<"U","s","e"," ","w","h","e","n"," ","r","e","v","i","e","w","i","n","g"," ","s","t","o","r","e","s">>, domain |-> general]],
    [text |-> <<"{","\"","c","a","t","e","g","o","r","y","\"",":","\"","n","e","u","t","r","a","l","\"",",","\"","c","o","n","f","i","d","e","n","c","e","\"",":","0",".","9",",","\"","s","k","i","l","l","N","a","m","e","\"",":","\"","a","v","o","i","d","-","m","u","t","a","t","i","o","n","\"",",","\"","t","i","t","l","e","\"",":","\"","A","v","o","i","d"," ","M","u","t","a","t","i","o","n","\"","}">>,
     value |-> [category |-> neutral, confidence |-> <<9, 10>>, skillName |-> <<"a","v","o","i","d","-","m","u","t","a","t","i","o","n">>,
                title |-> <<"A","v","o","i","d"," ","M","u","t","a","t","i","o","n">>]],
    [text |-> <<"{","\"","c","a","t","e","g","o","r","y","\"",":","\"","b","e","s","t","-","p","r","a","c","t","i","c","e","\"",",","\"","c","o","n","f","i","d","e","n","c","e","\"",":","0",".","2",",","\"","s","k","i","l","l","N","a","m","e","\"",":","\"","p","r","e","f","e","r","-","h","o","o","k","s","\"",",","\"","t","i","t","l","e","\"",":","\"","P","r","e","f","e","r"," ","H","o","o","k","s","\"","}">>,
     value |-> [category |-> best_practice, confidence |-> <<2, 10>>, skillName |-> <<"p","r","e","f","e","r","-","h","o","o","k","s">>,
                title |-> <<"P","r","e","f","e","r"," ","H","o","o","k","s">>]],
    [text |-> <<"{","\"","c","a","t","e","g","o","r","y","\"",":","\"","b","e","s","t","-","p","r","a","c","t","i","c","e","\"",",","\"","c","o","n","f","i","d","e","n","c","e","\"",":","0",".","3",",","\"","s","k","i","l","l","N","a","m","e","\"",":","\"","p","r","e","f","e","r","-","h","o","o","k","s","\"",",","\"","t","i","t","l","e","\"",":","\"","P","r","e","f","e","r"," ","H","o","o","k","s","\"",",","\"","k","e","y","w","o","r","d","s","\"",":","[","\"","h","o","o","k","s","\"","]","}">>,
     value |-> [category |-> best_practice, confidence |-> <<3, 10>>, skillName |-> <<"p","r","e","f","e","r","-","h","o","o","k","s">>,
                title |-> <<"P","r","e","f","e","r"," ","H","o","o","k","s">>, keywords |-> <<<<"h","o","o","k","s">>>>]],
    [text |-> <<"{","\"","c","a","t","e","g","o","r","y","\"",":","\"","a","n","t","i","-","p","a","t","t","e","r","n","\"",",","\"","c","o","n","f","i","d","e","n","c","e","\"",":","0",",","\"","s","k","i","l","l","N","a","m","e","\"",":","\"","a","v","o","i","d","-","g","l","o","b","a","l","s","\"",",","\"","t","i","t","l","e","\"",":","\"","A","v","o","i","d"," ","G","l","o","b","a","l","s","\"","}">>,
     value |-> [category |-> anti_pattern, confidence |-> <<0, 1>>, skillName |-> <<"a","v","o","i","d","-","g","l","o","b","a","l","s">>,
                title |-> <<"A","v","o","i","d"," ","G","l","o","b","a","l","s">>]],
    [text |-> <<"{","\"","c","a","t","e","g","o","r","y","\"",":","\"","b","e","s","t","-","p","r","a","c","t","i","c","e","\"",",","\"","t","i","t","l","e","\"",":","\"","P","r","e","f","e","r"," ","H","o","o","k","s","\"","}">>,
     value |-> [category |-> best_practice, title |-> <<"P","r","e","f","e","r"," ","H","o","o","k","s">>]],
    [text |-> <<"{","\"","c","o","n","f","i","d","e","n","c","e","\"",":","0",".","9",",","\"","t","i","t","l","e","\"",":","\"","A","v","o","i","d"," ","M","u","t","a","t","i","o","n","\"","}">>,
     value |-> [confidence |-> <<9, 10>>, title |-> <<"A","v","o","i","d"," ","M","u","t","a","t","i","o","n">>]],
    [text |-> <<"n","u","l","l">>, value |-> JsonNull] }

\* JSON.parse(text), as a set: empty when it throws
JSON_parse(text) == {entry.value : entry \in {e \in JsonTable : e.text = text}}

\* jsonText.match(/'''(?:json)?\n([\s\S]*?)\n'''/): the capture of the first match, as
\* a set, with the fence written as in Fence
FencedText(jsonText) ==
  LET InnerStart(p) == IF LitAt(jsonText, p + 3, <<"\n">>) THEN p + 4
                       ELSE IF LitAt(jsonText, p + 3, <<"j","s","o","n","\n">>) THEN p + 8
                       ELSE 0
      hits == {p \in 1..Len(jsonText) :
                 /\ LitAt(jsonText, p, Fence)
                 /\ InnerStart(p) # 0
                 /\ IndexFrom(jsonText, <<"\n">> \o Fence, InnerStart(p)) # 0}
      p == CHOOSE h \in hits : \A g \in hits : h <= g
  IN IF hits = {} THEN {}
     ELSE {SubSeq(jsonText, InnerStart(p), IndexFrom(jsonText, <<"\n">> \o Fence, InnerStart(p)) - 1)}

\* parsed.confidence || 0.5
ConfidenceOr(parsed, default) ==
  IF "confidence" \notin DOMAIN parsed \/ parsed.confidence[1] = 0 THEN default
  ELSE parsed.confidence

\* parsed[key] || default, for a member that holds a string or an array
MemberOr(parsed, key, default) ==
  IF Get(parsed, key) = <<>> THEN default ELSE parsed[key]

\* jsonText when JSON.parse is reached: the trimmed response or, when that starts with
\* a fence and the pattern matches, what the fence encloses
JsonText(responseText) ==
  LET trimmed == Trim(responseText)
  IN IF LitAt(trimmed, 1, Fence) /\ FencedText(trimmed) # {}
     THEN CHOOSE inner \in FencedText(trimmed) : TRUE
     ELSE trimmed

\* parseResponse(responseText), as a set: empty when it throws 'Invalid AI response
\* format', which it does when JSON.parse throws and when parsed is null
parseResponse(responseText) ==
  LET jsonText == JsonText(responseText)
  IN {[category |-> MemberOr(parsed, "category", neutral),
       confidence |-> ConfidenceOr(parsed, <<5, 10>>),
       skillName |-> MemberOr(parsed, "skillName", <<"u","n","k","n","o","w","n","-","s","k","i","l","l">>),
       title |-> MemberOr(parsed, "title", <<"U","n","t","i","t","l","e","d"," ","S","k","i","l","l">>),
       description |-> MemberOr(parsed, "description", <<>>),
       instructions |-> MemberOr(parsed, "instructions", <<>>),
       antiPattern |-> MemberOr(parsed, "antiPattern", <<>>),
       bestPractice |-> MemberOr(parsed, "bestPractice", <<>>),
       badExample |-> MemberOr(parsed, "badExample", <<>>),
       goodExample |-> MemberOr(parsed, "goodExample", <<>>),
       domain |-> MemberOr(parsed, "domain", general),
       keywords |-> MemberOr(parsed, "keywords", <<>>)] :
        parsed \in {v \in JSON_parse(jsonText) : v # JsonNull}}

antiPatternKeywords ==
  { <<"a","v","o","i","d">>, <<"d","o","n","'","t">>, <<"n","e","v","e","r">>, <<"s","h","o","u","l","d"," ","n","o","t">>, <<"s","h","o","u","l","d","n","'","t">>, <<"w","r","o","n","g">>, <<"i","n","c","o","r","r","e","c","t">>, <<"b","a","d">>,
    <<"a","n","t","i","-","p","a","t","t","e","r","n">>, <<"a","n","t","i","p","a","t","t","e","r","n">>, <<"p","r","o","b","l","e","m">>, <<"i","s","s","u","e">>, <<"b","u","g">>, <<"e","r","r","o","r">>, <<"f","i","x">>, <<"r","e","m","o","v","e">> }

bestPracticeKeywords ==
  { <<"s","h","o","u","l","d">>, <<"p","r","e","f","e","r">>, <<"r","e","c","o","m","m","e","n","d">>, <<"g","o","o","d">>, <<"b","e","s","t">>, <<"b","e","t","t","e","r">>, <<"c","o","r","r","e","c","t">>, <<"p","r","o","p","e","r">>, <<"u","s","e">>,
    <<"i","m","p","l","e","m","e","n","t">>, <<"f","o","l","l","o","w">>, <<"p","a","t","t","e","r","n">> }

\* commentBody.toLowerCase().replace(/[^\w\s]/g, ' ').split(/\s+/)
\*   .filter(w => w.length > 3).slice(0, 4)
FallbackWords(commentBody) ==
  LET lower == toLowerCase(commentBody)
      spaced == [i \in 1..Len(lower) |->
                   IF IsWordChar(lower[i]) \/ IsSpace(lower[i]) THEN lower[i] ELSE " "]
      long == SelectSeq(SplitSpaces(spaced), LAMBDA w : Len(w) > 3)
  IN SubSeq(long, 1, IF Len(long) < 4 THEN Len(long) ELSE 4)

\* String.prototype.substring(0, end)
Substring(s, end) == SubSeq(s, 1, IF Len(s) < end THEN Len(s) ELSE end)

fallbackCategorization(commentBody) ==
  LET lowerBody == toLowerCase(commentBody)
      hasAntiPattern == \E kw \in antiPatternKeywords : Includes(lowerBody, kw)
      hasBestPractice == \E kw \in bestPracticeKeywords : Includes(lowerBody, kw)
      category == IF hasAntiPattern /\ ~hasBestPractice THEN anti_pattern
                  ELSE IF hasBestPractice /\ ~hasAntiPattern THEN best_practice
                  ELSE neutral
      words == FallbackWords(commentBody)
  IN [category |-> category,
      confidence |-> <<3, 10>>,
      skillName |-> IF Join(words, <<"-">>) # <<>> THEN Join(words, <<"-">>) ELSE <<"u","n","k","n","o","w","n","-","s","k","i","l","l">>,
      title |-> Substring(commentBody, 50),
      description |-> Substring(commentBody, 200),
      instructions |-> commentBody,
      antiPattern |-> IF category = anti_pattern THEN commentBody ELSE <<>>,
      bestPractice |-> IF category = best_practice THEN commentBody ELSE <<>>,
      badExample |-> <<>>,
      goodExample |-> <<>>,
      domain |-> general,
      keywords |-> words]

\* SkillManager.detectDomain
detectDomain(filePath, content) ==
  LET lowerPath == toLowerCase(filePath)
      lowerContent == toLowerCase(content)
  IN IF \/ Includes(lowerPath, <<"o","h","i","f">>) \/ Includes(lowerPath, <<"v","i","e","w","e","r">>)
        \/ Includes(lowerContent, <<"o","h","i","f">>) \/ Includes(lowerContent, <<"v","i","e","w","e","r","p","o","r","t">>)
     THEN <<"o","h","i","f">>
     ELSE IF \/ Includes(lowerPath, <<"c","o","r","n","e","r","s","t","o","n","e">>) \/ Includes(lowerPath, <<"c","s","3","d">>)
             \/ Includes(lowerContent, <<"c","o","r","n","e","r","s","t","o","n","e">>) \/ Includes(lowerContent, <<"r","e","n","d","e","r","i","n","g","e","n","g","i","n","e">>)
     THEN <<"c","o","r","n","e","r","s","t","o","n","e","3","d">>
     ELSE general

(***************************************************************************)
(* SpecMain: main of process-comment.js, from the event file to the exit   *)
(* of the process, with AIProcessor.processComment and callAI as its steps *)
(***************************************************************************)

Environments ==
  [GITHUB_EVENT_PATH : BOOLEAN, GITHUB_TOKEN : BOOLEAN, CURSOR_API_KEY : BOOLEAN]

\* an event file that cannot be read or holds no JSON
NoEventFile == [unreadable |-> TRUE]

CommentBodies == {<<"A","v","o","i","d"," ","m","u","t","a","t","i","n","g"," ","t","h","e"," ","s","t","o","r","e">>, <<"D","o","n","'","t"," ","u","s","e"," ","g","l","o","b","a","l","s">>, <<"L","o","o","k","s"," ","f","i","n","e"," ","t","o"," ","m","e">>, <<"P","r","e","f","e","r"," ","h","o","o","k","s"," ","i","n"," ","O","H","I","F"," ","p","a","n","e","l","s">>}

\* event payloads: an issue comment, a pull request without comment, comments on a
\* pull request with and without a path, an event without issue
EventPool ==
  { NoEventFile,
    [action |-> <<"c","r","e","a","t","e","d">>],
    [issue |-> [number |-> 7],
     comment |-> [id |-> 1, body |-> <<"A","v","o","i","d"," ","m","u","t","a","t","i","n","g"," ","t","h","e"," ","s","t","o","r","e">>, user |-> [login |-> <<"a","l">>]]],
    [issue |-> [number |-> 7, pull_request |-> [url |-> <<"p","u","l","l","s","/","7">>]]],
    [issue |-> [number |-> 7, pull_request |-> [url |-> <<"p","u","l","l","s","/","7">>]],
     comment |-> [id |-> 1, body |-> <<"A","v","o","i","d"," ","m","u","t","a","t","i","n","g"," ","t","h","e"," ","s","t","o","r","e">>, user |-> [login |-> <<"a","l">>],
                  path |-> <<"s","r","c","/","a",".","j","s">>]] }
  \cup { [issue |-> [number |-> 12, pull_request |-> [url |-> <<"p","u","l","l","s","/","1","2">>]],
          comment |-> [id |-> 2, body |-> body, user |-> [login |-> <<"b","o">>]]] :
           body \in CommentBodies }

\* what getPRComment resolves with
ReviewComments == {[diff_hunk |-> <<"+"," ","s","t","a","t","e",".","x"," ","="," ","1">>, path |-> <<"s","r","c","/","c","s","3","d","/","t","o","o","l",".","j","s">>], [id |-> 1]}

\* the contents an AI endpoint resolves with: the JSON texts, the text of the first and
\* of the fifth inside a fence, a fence that is not closed, and texts that are no JSON
ResponseTexts ==
  {e.text : e \in JsonTable}
    \cup {Fence \o <<"j","s","o","n","\n">> \o e.text \o <<"\n">> \o Fence :
            e \in {x \in JsonTable : x.value # JsonNull /\ Get(x.value, "category") = anti_pattern}}
    \cup {Fence \o <<"\n">> \o e.text :
            e \in {x \in JsonTable : x.value # JsonNull /\ Get(x.value, "category") = neutral}}
    \cup {<<"I"," ","c","a","n","n","o","t"," ","h","e","l","p"," ","w","i","t","h"," ","t","h","a","t",".">>, <<>>}

\* new Date().toISOString().split('T')[0]
Today == <<"2","0","2","6","-","0","1","-","0","2">>

InitMain ==
  /\ step = 0
  /\ pc = "start"
  /\ env \in Environments
  /\ eventData \in EventPool
  /\ ~env.GITHUB_EVENT_PATH => eventData = NoEventFile
  /\ commentData = <<>> /\ requests = <<>> /\ response = <<>> /\ aiResult = <<>>
  /\ exitStatus = <<>>
  /\ files = <<>> /\ dirs = {} /\ last = <<>> /\ contributed = <<>>
  /\ ParseIdle /\ ConcurrentIdle
  /\ rawName = Unused /\ normalized = Unused /\ renormalized = Unused
  /\ skillA = Unused /\ skillB = Unused /\ scores = Unused
  /\ candidate = Unused /\ corpus = Unused /\ similar = Unused
  /\ existingSkill = Unused /\ newSkill = Unused /\ merged = Unused

\* process.exit(status)
Exit(status) ==
  /\ pc' = "exited"
  /\ exitStatus' = <<status>>

\* !eventData.issue?.pull_request
NotPullRequest(event) ==
  ~("issue" \in DOMAIN event /\ "pull_request" \in DOMAIN event.issue)

\* a main that does not look at the issue's pull_request field
LoadEvent_NoFilter ==
  /\ pc = "start"
  /\ IF ~env.GITHUB_EVENT_PATH \/ eventData = NoEventFile THEN Exit(1)
     ELSE IF "issue" \notin DOMAIN eventData THEN Exit(0)
     ELSE IF "comment" \notin DOMAIN eventData THEN Exit(0)
     ELSE IF ~env.GITHUB_TOKEN THEN Exit(1)
     ELSE pc' = "context" /\ exitStatus' = exitStatus
  /\ step' = step + 1
  /\ UNCHANGED <<env, eventData, commentData, requests, response, aiResult, generateVars,
                 normalizeVars, scoreVars, findVars, mergeVars, parseVars, concurrentVars>>

\* main up to the first request: the event file is read and parsed, events that are
\* no comment on a pull request end the process, then the token is required. The
\* payloads in use carry comment.user.login and repository.full_name.
LoadEvent ==
  /\ pc = "start"
  /\ IF ~env.GITHUB_EVENT_PATH \/ eventData = NoEventFile THEN Exit(1)
     ELSE IF NotPullRequest(eventData) THEN Exit(0)
     ELSE IF "comment" \notin DOMAIN eventData THEN Exit(0)
     ELSE IF ~env.GITHUB_TOKEN THEN Exit(1)
     ELSE pc' = "context" /\ exitStatus' = exitStatus
  /\ step' = step + 1
  /\ UNCHANGED <<env, eventData, commentData, requests, response, aiResult, generateVars,
                 normalizeVars, scoreVars, findVars, mergeVars, parseVars, concurrentVars>>

\* main, "Try to get the specific review comment" down to commentData: one GitHub
\* request, getPRComment for a comment with a path and getPR otherwise, whose failure
\* is logged and ignored
FetchContext ==
  /\ pc = "context"
  /\ LET comment == eventData.comment
     IN \E ok \in BOOLEAN : \E reviewComment \in ReviewComments :
          /\ requests' = Append(requests, [endpoint |-> "github",
                                           outcome |-> IF ok THEN "resolved" ELSE "rejected"])
          /\ commentData' =
               [body |-> comment.body,
                filePath |-> IF "path" \notin DOMAIN comment THEN <<>>
                             ELSE IF ok /\ Get(reviewComment, "path") # <<>> THEN reviewComment.path
                             ELSE comment.path,
                diffHunk |-> IF "path" \in DOMAIN comment /\ ok
                             THEN Get(reviewComment, "diff_hunk") ELSE <<>>,
                author |-> comment.user.login]
  /\ pc' = "classify"
  /\ step' = step + 1
  /\ UNCHANGED <<env, eventData, response, aiResult, exitStatus, generateVars,
                 normalizeVars, scoreVars, findVars, mergeVars, parseVars, concurrentVars>>

\* the last request gets its outcome
Settle(outcome) ==
  [requests EXCEPT ![Len(requests)] = [endpoint |-> requests[Len(requests)].endpoint,
                                       outcome |-> outcome]]

\* processComment once callAI has returned content: parseResponse, and the catch
\* clause's fallbackCategorization when parseResponse throws
Classified(content) ==
  IF parseResponse(content) = {} THEN fallbackCategorization(commentData.body)
  ELSE CHOOSE result \in parseResponse(content) : TRUE

\* a callAI that asks the OpenAI-compatible endpoint first
CallAI_OpenAIFirst ==
  /\ pc = "classify"
  /\ IF ~env.CURSOR_API_KEY
     THEN /\ aiResult' = fallbackCategorization(commentData.body)
          /\ pc' = "gate"
          /\ requests' = requests
     ELSE /\ requests' = Append(requests, [endpoint |-> "openai", outcome |-> "pending"])
          /\ pc' = "openai"
          /\ aiResult' = aiResult
  /\ step' = step + 1
  /\ UNCHANGED <<env, eventData, commentData, response, exitStatus, generateVars,
                 normalizeVars, scoreVars, findVars, mergeVars, parseVars, concurrentVars>>

\* processComment and callAI up to the first request: without an API key callAI throws
\* and processComment returns the fallback; with one, the Cursor API is asked
CallAI ==
  /\ pc = "classify"
  /\ IF ~env.CURSOR_API_KEY
     THEN /\ aiResult' = fallbackCategorization(commentData.body)
          /\ pc' = "gate"
          /\ requests' = requests
     ELSE /\ requests' = Append(requests, [endpoint |-> "cursor", outcome |-> "pending"])
          /\ pc' = "cursor"
          /\ aiResult' = aiResult
  /\ step' = step + 1
  /\ UNCHANGED <<env, eventData, commentData, response, exitStatus, generateVars,
                 normalizeVars, scoreVars, findVars, mergeVars, parseVars, concurrentVars>>

\* callCursorAPI resolves with content: processComment parses it
CursorAPIResolves ==
  /\ pc = "cursor"
  /\ \E content \in ResponseTexts :
       /\ response' = <<content>>
       /\ aiResult' = Classified(content)
  /\ requests' = Settle("resolved")
  /\ pc' = "gate"
  /\ step' = step + 1
  /\ UNCHANGED <<env, eventData, commentData, exitStatus, generateVars,
                 normalizeVars, scoreVars, findVars, mergeVars, parseVars, concurrentVars>>

\* callCursorAPI rejects: callAI asks the OpenAI-compatible endpoint
CursorAPIRejects ==
  /\ pc = "cursor"
  /\ requests' = Append(Settle("rejected"), [endpoint |-> "openai", outcome |-> "pending"])
  /\ pc' = "openai"
  /\ step' = step + 1
  /\ UNCHANGED <<env, eventData, commentData, response, aiResult, exitStatus, generateVars,
                 normalizeVars, scoreVars, findVars, mergeVars, parseVars, concurrentVars>>

\* callOpenAICompatible resolves with content: processComment parses it
OpenAIResolves ==
  /\ pc = "openai"
  /\ \E content \in ResponseTexts :
       /\ response' = <<content>>
       /\ aiResult' = Classified(content)
  /\ requests' = Settle("resolved")
  /\ pc' = "gate"
  /\ step' = step + 1
  /\ UNCHANGED <<env, eventData, commentData, exitStatus, generateVars,
                 normalizeVars, scoreVars, findVars, mergeVars, parseVars, concurrentVars>>

\* callOpenAICompatible rejects: callAI throws and processComment returns the fallback
OpenAIRejects ==
  /\ pc = "openai"
  /\ requests' = Settle("rejected")
  /\ aiResult' = fallbackCategorization(commentData.body)
  /\ pc' = "gate"
  /\ step' = step + 1
  /\ UNCHANGED <<env, eventData, commentData, response, exitStatus, generateVars,
                 normalizeVars, scoreVars, findVars, mergeVars, parseVars, concurrentVars>>

\* a gate that also turns away a confidence of exactly 0.3
ShouldSkip_AtThreshold(result) == result.category = neutral \/ ~NumGt(result.confidence, <<3, 10>>)

\* aiResult.category === 'neutral' || aiResult.confidence < 0.3
ShouldSkip(result) == result.category = neutral \/ ~NumGeq(result.confidence, <<3, 10>>)

\* main, "Check if we should create a skill": the process ends without a skill
SkipSkill ==
  /\ pc = "gate"
  /\ ShouldSkip(aiResult)
  /\ Exit(0)
  /\ step' = step + 1
  /\ UNCHANGED <<env, eventData, commentData, requests, response, aiResult, generateVars,
                 normalizeVars, scoreVars, findVars, mergeVars, parseVars, concurrentVars>>

\* main from "Detect domain if not provided" to its end: generateSkill is called with
\* the classification and the source, and the process ends with status 0
CreateSkill ==
  /\ pc = "gate"
  /\ ~ShouldSkip(aiResult)
  /\ \E detected \in {IF aiResult.domain = general
                       THEN Spread(aiResult, [domain |-> detectDomain(commentData.filePath,
                                                                       eventData.comment.body)])
                       ELSE aiResult} :
       \E sourceInfo \in {[pr |-> eventData.issue.number,
                            author |-> eventData.comment.user.login,
                            date |-> Today,
                            file |-> IF commentData.filePath # <<>> THEN commentData.filePath
                                     ELSE <<"N","/","A">>]} :
         \E order \in ListingOrders(ReadableSkillFiles(files, dirs)) :
           \E call \in {generateSkill(files, dirs, detected, sourceInfo, order)} :
             /\ aiResult' = detected
             /\ files' = call.files
             /\ dirs' = call.dirs
             /\ last' = Spread(call.result, [skillData |-> detected, sourceInfo |-> sourceInfo])
             /\ contributed' = [p \in {call.result.path} |-> {sourceInfo}]
  /\ Exit(0)
  /\ step' = step + 1
  /\ UNCHANGED <<env, eventData, commentData, requests, response,
                 normalizeVars, scoreVars, findVars, mergeVars, parseVars, concurrentVars>>

NextMain ==
  \/ LoadEvent
  \/ FetchContext
  \/ CallAI
  \/ CursorAPIResolves
  \/ CursorAPIRejects
  \/ OpenAIResolves
  \/ OpenAIRejects
  \/ SkipSkill
  \/ CreateSkill

SpecMain == InitMain /\ [][NextMain]_vars

(***************************************************************************)
(* Properties of main: the gate on the reported classification, the order  *)
(* of the AI requests and the fallback, the pull-request filter            *)
(***************************************************************************)

\* what the response reports: the object JSON.parse gives for the text of the response
Reported(content) == {v \in JSON_parse(JsonText(content)) : v # JsonNull}

\* C15: when the response of the AI endpoint reports the category neutral or a
\* confidence below 0.3, generateSkill is never called, no skill file is written, and
\* the process ends with status 0
C15_LowOrNeutralSkips ==
  \A v \in (IF response = <<>> THEN {} ELSE Reported(response[1])) :
    (\/ Get(v, "category") = neutral
     \/ ("confidence" \in DOMAIN v /\ ~NumGeq(v.confidence, <<3, 10>>)))
      => /\ last = <<>>
         /\ files = <<>>
         /\ pc = "exited" => exitStatus = <<0>>

\* the members of a classification record
ClassificationFields ==
  {"category", "confidence", "skillName", "title", "description", "instructions",
   "antiPattern", "bestPractice", "badExample", "goodExample", "domain", "keywords"}

\* both AI requests of this run were rejected
BothCallsFailed ==
  /\ Len(requests) >= 2
  /\ requests[Len(requests) - 1] = [endpoint |-> "cursor", outcome |-> "rejected"]
  /\ requests[Len(requests)] = [endpoint |-> "openai", outcome |-> "rejected"]

\* C16: processComment always gives a classification record with the same twelve
\* fields and never ends the process with an error; the OpenAI-compatible endpoint is
\* asked only right after a Cursor request that was rejected; and without an API key,
\* when both requests were rejected, or when the response is no JSON text, the record
\* is the keyword-based fallback classification of the comment body
C16_AlwaysClassifies ==
  /\ pc \in {"gate", "exited"} /\ aiResult # <<>> => DOMAIN aiResult = ClassificationFields
  /\ pc = "gate" => aiResult # <<>>
  /\ exitStatus = <<1>> => requests = <<>>
  /\ \A i \in 1..Len(requests) :
       requests[i].endpoint = "openai" =>
         i > 1 /\ requests[i - 1] = [endpoint |-> "cursor", outcome |-> "rejected"]
  /\ (/\ pc = "gate"
      /\ \/ ~env.CURSOR_API_KEY
         \/ BothCallsFailed
         \/ (response # <<>> /\ JSON_parse(JsonText(response[1])) = {}))
       => aiResult = fallbackCategorization(commentData.body)

\* each of the three ways to the fallback is taken: both requests rejected here
C16_Witness ==
  /\ pc = "gate"
  /\ BothCallsFailed
  /\ aiResult = fallbackCategorization(commentData.body)

\* the event has an issue, and the issue has no pull_request field
IssueWithoutPullRequest ==
  "issue" \in DOMAIN eventData /\ "pull_request" \notin DOMAIN eventData.issue

\* C19: when the event's issue has no pull_request field, no GitHub or AI request is
\* made, no skill file is written, and the process ends with status 0
C19_NotPullRequestSkips ==
  IssueWithoutPullRequest =>
    /\ requests = <<>>
    /\ files = <<>> /\ last = <<>>
    /\ pc \in {"start", "exited"}
    /\ pc = "exited" => exitStatus = <<0>>

\* an issue comment with a comment body has ended the process with status 0
C19_Witness ==
  /\ IssueWithoutPullRequest
  /\ "comment" \in DOMAIN eventData
  /\ env.GITHUB_TOKEN /\ env.CURSOR_API_KEY
  /\ pc = "exited" /\ exitStatus = <<0>>

(***************************************************************************)
(* SpecConcurrent: two orchestration instances, each in one generateSkill  *)
(* call on the same skills directory. A call suspends at its awaits: it    *)
(* reads the directory in findSimilarSkills, and writes SKILL.md later, so *)
(* the other instance can run between the two.                             *)
(***************************************************************************)

Instances == {1, 2}

\* the classifications the instances hand to generateSkill, without instructions
ConcurrentInputs ==
  { Classification(anti_pattern, <<"a","v","o","i","d","-","m","u","t","a","t","i","o","n">>, <<"A","v","o","i","d"," ","M","u","t","a","t","i","o","n">>, <<"U","s","e"," ","w","h","e","n"," ","r","e","v","i","e","w","i","n","g"," ","s","t","o","r","e","s">>, <<<<"s","t","o","r","e","s">>>>, general),
    Classification(anti_pattern, <<"a","v","o","i","d","-","g","l","o","b","a","l","s">>, <<"A","v","o","i","d"," ","G","l","o","b","a","l","s">>, <<"U","s","e"," ","w","h","e","n"," ","r","e","v","i","e","w","i","n","g"," ","m","o","d","u","l","e","s">>, <<<<"m","o","d","u","l","e","s">>>>, general),
    Classification(best_practice, <<"p","r","e","f","e","r","-","h","o","o","k","s">>, <<"P","r","e","f","e","r"," ","H","o","o","k","s">>, <<"U","s","e"," ","f","o","r"," ","p","a","n","e","l","s"," ","w","i","t","h"," ","e","f","f","e","c","t","s">>, <<<<"h","o","o","k","s">>>>, general) }

\* the instructions of each instance's classification
InstanceInstructions == <<<<"C","o","p","y"," ","t","h","e"," ","s","t","a","t","e"," ","f","i","r","s","t",".">>, <<"F","r","e","e","z","e"," ","t","h","e"," ","s","h","a","r","e","d"," ","s","t","o","r","e",".">>>>

InstanceSources ==
  <<[pr |-> 7, author |-> <<"a","l">>, date |-> <<"2","0","2","6","-","0","1","-","0","2">>, file |-> <<"s","r","c","/","a",".","j","s">>],
    [pr |-> 12, author |-> <<"b","o">>, date |-> <<"2","0","2","6","-","0","3","-","0","4">>, file |-> <<"N","/","A">>]>>

\* a skills directory after one earlier generateSkill call
SeededDirectory ==
  generateSkill(<<>>, {},
                Spread(Classification(anti_pattern, <<"a","v","o","i","d","-","m","u","t","a","t","i","o","n">>, <<"A","v","o","i","d"," ","M","u","t","a","t","i","o","n">>, <<"U","s","e"," ","w","h","e","n"," ","r","e","v","i","e","w","i","n","g"," ","s","t","o","r","e","s">>, <<<<"s","t","o","r","e","s">>>>, general),
                       [instructions |-> <<"N","e","v","e","r"," ","a","s","s","i","g","n"," ","t","o"," ","p","r","o","p","s",".">>]),
                [pr |-> 3, author |-> <<"c","y">>, date |-> <<"2","0","2","5","-","1","2","-","0","1">>, file |-> <<"s","r","c","/","c",".","j","s">>], <<>>)

InitConcurrent ==
  /\ step = 0
  /\ \E seeded \in BOOLEAN :
       /\ files = IF seeded THEN SeededDirectory.files ELSE <<>>
       /\ dirs = IF seeded THEN SeededDirectory.dirs ELSE {}
  /\ last = <<>>
  /\ contributed = <<>>
  /\ \E inputs \in [Instances -> ConcurrentInputs] :
       instances = [i \in Instances |->
                      [pc |-> "start",
                       skillData |-> Spread(inputs[i], [instructions |-> InstanceInstructions[i]]),
                       sourceInfo |-> InstanceSources[i],
                       snapshot |-> <<>>,
                       overlapped |-> FALSE]]
  /\ rawName = Unused /\ normalized = Unused /\ renormalized = Unused
  /\ skillA = Unused /\ skillB = Unused /\ scores = Unused
  /\ candidate = Unused /\ corpus = Unused /\ similar = Unused
  /\ existingSkill = Unused /\ newSkill = Unused /\ merged = Unused
  /\ ParseIdle /\ MainIdle

\* generateSkill down to `await this.skillManager.findSimilarSkills(...)`: getAllSkills
\* reads the directory as it is now. The instance is marked when the other one has
\* read and not yet written.
FindSimilarSkills(i) ==
  /\ instances[i].pc = "start"
  /\ \E order \in ListingOrders(ReadableSkillFiles(files, dirs)) :
       instances' = [instances EXCEPT
                       ![i].pc = "read",
                       ![i].snapshot = [files |-> files, dirs |-> dirs, order |-> order],
                       ![i].overlapped = \E j \in Instances \ {i} : instances[j].pc = "read"]
  /\ step' = step + 1
  /\ UNCHANGED <<generateVars, normalizeVars, scoreVars, findVars, mergeVars, parseVars, mainVars>>

\* the rest of generateSkill: from what findSimilarSkills returned it merges or
\* creates, builds the content, and writes SKILL.md and the reference files into the
\* directory as it is now
WriteSkill(i) ==
  /\ instances[i].pc = "read"
  /\ \E call \in {generateSkill(instances[i].snapshot.files, instances[i].snapshot.dirs,
                                instances[i].skillData, instances[i].sourceInfo,
                                instances[i].snapshot.order)} :
       \E writtenPaths \in {{call.result.path} \cup call.referenceFiles} :
         /\ files' = [p \in DOMAIN files \cup writtenPaths |->
                        IF p \in writtenPaths THEN call.files[p] ELSE files[p]]
         /\ dirs' = dirs \cup call.dirs
         /\ last' = Spread(call.result, [skillData |-> instances[i].skillData,
                                         sourceInfo |-> instances[i].sourceInfo])
         /\ contributed' =
              [p \in DOMAIN contributed \cup {call.result.path} |->
                 IF p # call.result.path THEN contributed[p]
                 ELSE IF call.result.merged /\ p \in DOMAIN contributed
                 THEN contributed[p] \cup {instances[i].sourceInfo}
                 ELSE {instances[i].sourceInfo}]
  /\ instances' = [instances EXCEPT ![i].pc = "done"]
  /\ step' = step + 1
  /\ UNCHANGED <<normalizeVars, scoreVars, findVars, mergeVars, parseVars, mainVars>>

NextConcurrent ==
  \/ \E i \in Instances : FindSimilarSkills(i)
  \/ \E i \in Instances : WriteSkill(i)

SpecConcurrent == InitConcurrent /\ [][NextConcurrent]_vars

\* both calls have returned
BothDone == \A i \in Instances : instances[i].pc = "done"

\* the instructions of instance i stand in a file of the skills directory
Persisted(i) == \E p \in DOMAIN files : Includes(files[p], instances[i].skillData.instructions)

\* C17: two generateSkill calls running concurrently cannot interfere: once both have
\* returned, the skills directory holds the contribution of both, whatever the
\* interleaving
C17_BothContributionsPersist ==
  BothDone => \A i \in Instances : Persisted(i)

\* calls that ran one after the other leave both contributions in the directory
SequentialCallsKeepBoth ==
  (BothDone /\ \A i \in Instances : ~instances[i].overlapped)
    => \A i \in Instances : Persisted(i)

(***************************************************************************)
(* SpecBare: generateSkill on classifications that carry instructions but  *)
(* neither category text nor examples, as parseResponse returns them for a *)
(* response without these members                                          *)
(***************************************************************************)

\* a classification whose document ends with the Instructions section
BareClassification(category, skillName, title, description, instructions, keywords) ==
  Spread(Classification(category, skillName, title, description, keywords, general),
         [instructions |-> instructions, antiPattern |-> <<>>, bestPractice |-> <<>>,
          badExample |-> <<>>, goodExample |-> <<>>])

BareSkillInputs ==
  { BareClassification(best_practice, <<"p","r","e","f","e","r","-","h","o","o","k","s">>, <<"P","r","e","f","e","r"," ","H","o","o","k","s">>, <<"U","s","e"," ","f","o","r"," ","p","a","n","e","l","s"," ","w","i","t","h"," ","e","f","f","e","c","t","s">>, <<"K","e","e","p"," ","e","f","f","e","c","t","s"," ","l","o","c","a","l",".">>, <<>>),
    BareClassification(best_practice, <<"p","r","e","f","e","r","-","h","o","o","k","s">>, <<"P","r","e","f","e","r"," ","H","o","o","k","s">>, <<"U","s","e"," ","f","o","r"," ","p","a","n","e","l","s"," ","w","i","t","h"," ","e","f","f","e","c","t","s">>, <<"R","e","t","u","r","n"," ","a"," ","c","l","e","a","n","u","p"," ","f","u","n","c","t","i","o","n",".">>, <<<<"h","o","o","k","s">>>>),
    BareClassification(anti_pattern, <<"a","v","o","i","d","-","g","l","o","b","a","l","s">>, <<"A","v","o","i","d"," ","G","l","o","b","a","l","s">>, <<"U","s","e"," ","w","h","e","n"," ","r","e","v","i","e","w","i","n","g"," ","m","o","d","u","l","e","s">>, <<"P","a","s","s"," ","t","h","e"," ","v","a","l","u","e"," ","i","n",".">>, <<>>),
    BareClassification(anti_pattern, <<"a","v","o","i","d","-","m","u","t","a","t","i","o","n">>, <<"A","v","o","i","d"," ","M","u","t","a","t","i","o","n">>, <<"U","s","e"," ","w","h","e","n"," ","r","e","v","i","e","w","i","n","g"," ","s","t","o","r","e","s">>, <<"C","o","p","y"," ","t","h","e"," ","s","t","a","t","e"," ","f","i","r","s","t",".">>, <<<<"s","t","o","r","e","s">>>>),
    BareClassification(best_practice, <<"u","s","e","-","i","m","m","e","r">>, <<"U","s","e"," ","I","m","m","e","r">>, <<"U","s","e"," ","f","o","r"," ","n","e","s","t","e","d"," ","u","p","d","a","t","e","s">>, <<"W","r","a","p"," ","t","h","e"," ","r","e","d","u","c","e","r"," ","i","n"," ","p","r","o","d","u","c","e",".">>, <<>>) }

GenerateBareSkill == GenerateSkillFrom(BareSkillInputs)

NextBare == GenerateBareSkill

SpecBare == Init /\ [][NextBare]_vars

\* a document up to its trailing HTML comment
VisibleBody(doc) == SubSeq(doc, 1, Len(doc) - Len(MetadataBlock(doc)))

\* the text holds a line of source attribution as buildSkillContent and
\* buildSourceMetadata write them
NamesSource(text) ==
  \/ Includes(text, <<"P","R",":"," ","#">>)
  \/ Includes(text, <<"A","u","t","h","o","r",":"," ","@">>)
  \/ Includes(text, <<"D","a","t","e",":"," ">>)
  \/ Includes(text, <<"F","i","l","e",":"," ">>)

\* C18: in every document generateSkill has written by way of buildSkillContent or
\* applyProgressiveDisclosure, the source attribution (PR, author, date, file) stands
\* in the trailing HTML comment only, never in the body before it
C18_AttributionOnlyInTrailingBlock ==
  \A p \in DOMAIN files : ~NamesSource(VisibleBody(files[p]))

\* a document built for a directory that held no similar skill keeps the attribution
\* in its trailing comment
CreatedDocumentsKeepBodyClean ==
  (step > 0 /\ last.isNew) => ~NamesSource(VisibleBody(files[last.path]))

\* the description buildSkillContent starts from: description || title
BaseDescription(skillData) ==
  IF Get(skillData, "description") # <<>> THEN skillData.description
  ELSE Get(skillData, "title")

\* C25: buildSkillContent writes the description unchanged when
\* SkillValidator.hasWhenToUse accepts it, and with the canned clause of addWhenToUse
\* appended exactly when the validator finds no usage context in it
C25_ClauseIffValidatorRejects ==
  document # Unused =>
    StartsWith(document,
      Frontmatter(DocumentName(skillInput.skillData),
        IF SkillValidator_hasWhenToUse(BaseDescription(skillInput.skillData))
        THEN BaseDescription(skillInput.skillData)
        ELSE addWhenToUse(BaseDescription(skillInput.skillData),
                          skillInput.skillData.category, general)))

\* C26: a call of generateSkill that follows a call with the same skill data merges
\* into the record the earlier call wrote: it returns merged = true and the same path
C26_RepeatedCallMerges ==
  [][(step = 1 /\ step' = 2 /\ last'.skillData = last.skillData)
       => (last'.merged /\ last'.path = last.path)]_vars

\* the same for the classification named prefer-hooks alone
RepeatedHooksCallMerges ==
  [][(step = 1 /\ step' = 2 /\ last'.skillData = last.skillData
        /\ last.skillData.skillName = <<"p","r","e","f","e","r","-","h","o","o","k","s">>)
       => (last'.merged /\ last'.path = last.path)]_vars

\* the document has a section with the heading: the heading opens one of its lines
HasHeading(content, heading) ==
  \E i \in LineStarts(content) : LitAt(content, i, heading \o <<"\n">>)

HasCategorySection(content) ==
  HasHeading(content, <<"#","#"," ","A","n","t","i","-","P","a","t","t","e","r","n">>) \/ HasHeading(content, <<"#","#"," ","B","e","s","t"," ","P","r","a","c","t","i","c","e">>)

\* C27: when generateSkill merges a classification into an existing record, the
\* SKILL.md it rewrites has a category section (Anti-Pattern or Best Practice) whenever
\* the classification brings one or the document had one before, and an Examples
\* section whenever the classification brings examples or the document had the section
C27_MergeKeepsSections ==
  [][(step' = step + 1 /\ last'.merged) =>
       /\ (CategorySection(last'.skillData) # <<>> \/ HasCategorySection(files[last'.path]))
            => HasCategorySection(files'[last'.path])
       /\ (ExamplesSection(last'.skillData) # <<>> \/ HasHeading(files[last'.path], <<"#","#"," ","E","x","a","m","p","l","e","s">>))
            => HasHeading(files'[last'.path], <<"#","#"," ","E","x","a","m","p","l","e","s">>)]_vars

\* C28: every SKILL.md generateSkill wrote from a record with non-empty instructions,
\* split by progressive disclosure or not, gives non-empty instructions back when
\* parseSkillFile loads it
C28_InstructionsSurvive ==
  (step > 0 /\ last.skillData.instructions # <<>>) =>
    parseSkillFile(files[last.path]).instructions # <<>>

\* C29: the frontmatter of every SKILL.md generateSkill wrote, created or merged, names
\* the directory that holds the file
C29_NameIsDirectoryName ==
  step > 0 =>
    StartsWith(files[last.path],
               <<"-","-","-","\n","n","a","m","e",":"," ">> \o last.path[Len(last.path) - 1] \o <<"\n">>)

\* the same for the calls that merged
MergedNameIsDirectoryName ==
  (step > 0 /\ last.merged) =>
    StartsWith(files[last.path],
               <<"-","-","-","\n","n","a","m","e",":"," ">> \o last.path[Len(last.path) - 1] \o <<"\n">>)

\* the same for the calls that created a document in a directory of its own
CreatedNameIsDirectoryName ==
  (step > 0 /\ last.isNew /\ Len(last.path) = 4) =>
    StartsWith(files[last.path],
               <<"-","-","-","\n","n","a","m","e",":"," ">> \o last.path[Len(last.path) - 1] \o <<"\n">>)

\* processComment returned the fallback classification: callAI threw, without an API
\* key or with both requests rejected, or parseResponse threw on the content
UsedFallback ==
  /\ aiResult # <<>>
  /\ response = <<>> \/ parseResponse(response[1]) = {}

\* the comment body contains a keyword of the group
MatchesGroup(body, keywordGroup) ==
  \E kw \in keywordGroup : Includes(toLowerCase(body), kw)

MatchesOneGroup(body) ==
  MatchesGroup(body, antiPatternKeywords) # MatchesGroup(body, bestPracticeKeywords)

\* C30: a fallback classification has confidence 0.3 and passes the gate of main: the
\* run ends with a persisted skill exactly when the comment body matches keywords of
\* exactly one of the two groups, with that group's category, and is skipped as
\* neutral when the body matches both groups or neither
C30_FallbackPassesGate ==
  UsedFallback =>
    /\ aiResult.confidence = <<3, 10>>
    /\ aiResult.category = neutral <=> ~MatchesOneGroup(commentData.body)
    /\ pc = "exited" =>
         /\ exitStatus = <<0>>
         /\ (last # <<>> /\ last.path \in DOMAIN files) <=> MatchesOneGroup(commentData.body)
         /\ ~MatchesOneGroup(commentData.body) => files = <<>>

\* a run that fell back after both requests were rejected and wrote a skill
C30_Witness ==
  /\ UsedFallback
  /\ BothCallsFailed
  /\ pc = "exited"
  /\ MatchesGroup(commentData.body, antiPatternKeywords)
  /\ ~MatchesGroup(commentData.body, bestPracticeKeywords)
  /\ last # <<>>
  /\ last.skillData.category = anti_pattern
  /\ last.path \in DOMAIN files

\* a run that fell back on a body matching both groups and was skipped
FallbackOnBothGroupsSkipped ==
  /\ UsedFallback
  /\ pc = "exited"
  /\ MatchesGroup(commentData.body, antiPatternKeywords)
  /\ MatchesGroup(commentData.body, bestPracticeKeywords)
  /\ files = <<>>

====
